---- MODULE Spec2Model ----
(***************************************************************************)
(* A model of the string formatting library of src/format.h and            *)
(* src/format.cc: the growable Array, the integer encoder                  *)
(* (CountDigits, FormatDecimal, PrepareFilledBuffer, FormatInt), the       *)
(* format-string parser Formatter::DoFormat with ParseUInt, ParseArgIndex, *)
(* ReportError, and the statement-level protocol by which a Formatter      *)
(* receives its arguments and is made to render (operator(), operator<<,   *)
(* the destructors of Arg and ArgInserter, str()).                         *)
(*                                                                         *)
(* Characters are one-character strings, text is a sequence of them.       *)
(* Pointers into a buffer are 0-based offsets.  Machine integers keep a    *)
(* width: `int`/`unsigned` have IntBits bits and `long`/`unsigned long`    *)
(* LongBits bits, scaled down so that every value fits the checker's       *)
(* integers; all arithmetic that can wrap is taken modulo 2^width.         *)
(***************************************************************************)
EXTENDS Integers, Sequences, FiniteSets, TLC

\* Width in bits of int and unsigned (scaled down from 32).
IntBits == 10
\* Width in bits of long, unsigned long and uintptr_t (twice an int, as on LP64).
LongBits == 2 * IntBits

Pow2(n) == 2 ^ n
UINT_MAX == Pow2(IntBits) - 1
INT_MAX == Pow2(IntBits - 1) - 1
INT_MIN == 0 - Pow2(IntBits - 1)
ULONG_MAX == Pow2(LongBits) - 1
LONG_MAX == Pow2(LongBits - 1) - 1
LONG_MIN == 0 - Pow2(LongBits - 1)

Max(a, b) == IF a >= b THEN a ELSE b
Min(a, b) == IF a <= b THEN a ELSE b

\* The character with code 0, and the content of a cell nobody has written.
NUL == "NUL"
UNINIT == "UNINIT"

DecimalDigits == <<"0", "1", "2", "3", "4", "5", "6", "7", "8", "9">>
IsDigit(c) == \E i \in 1..10 : DecimalDigits[i] = c
\* c - '0' for a decimal digit c
DigitValue(c) == (CHOOSE i \in 1..10 : DecimalDigits[i] = c) - 1
\* '0' + v for 0 <= v <= 9
DigitChar(v) == DecimalDigits[v + 1]

\* n copies of the character c
Rep(c, n) == [i \in 1..n |-> c]

(***************************************************************************)
(* internal::Array<T, SIZE>: size_, capacity_ and the storage ptr_ points  *)
(* to.  mem holds the cells written so far (a cell never written reads     *)
(* UNINIT); Len(mem) > capacity means that cells beyond the allocation     *)
(* were written.                                                           *)
(***************************************************************************)
INLINE_BUFFER_SIZE == 500
NUM_INLINE_ARGS == 10

ArrayInit(SIZE) == [size |-> 0, capacity |-> SIZE, mem |-> <<>>]

\* ptr_[index] = value
Poke(mem, index, value) ==
    IF index < 0 THEN mem
    ELSE IF index < Len(mem) THEN [mem EXCEPT ![index + 1] = value]
    ELSE mem \o Rep(UNINIT, index - Len(mem)) \o <<value>>

\* ptr_[index]
Peek(mem, index) ==
    IF index >= 0 /\ index < Len(mem) THEN mem[index + 1] ELSE UNINIT

\* std::fill(first, last, value) on offsets
Fill(mem, first, last, value) ==
    IF first >= last \/ first < 0 THEN mem
    ELSE [i \in 1..Max(Len(mem), last) |->
             IF i > first /\ i <= last THEN value
             ELSE IF i <= Len(mem) THEN mem[i] ELSE UNINIT]

\* std::copy(src, src + Len(src), ptr_ + at) from storage elsewhere
CopyTo(mem, at, src) ==
    IF src = <<>> \/ at < 0 THEN mem
    ELSE [i \in 1..Max(Len(mem), at + Len(src)) |->
             IF i > at /\ i <= at + Len(src) THEN src[i - at]
             ELSE IF i <= Len(mem) THEN mem[i] ELSE UNINIT]

\* Array::Grow: the new storage receives the first size_ elements only.
ArrayGrow(a, size) ==
    [size |-> a.size,
     capacity |-> Max(size, a.capacity + a.capacity \div 2),
     mem |-> SubSeq(a.mem, 1, Min(a.size, Len(a.mem)))]

ArrayResize(a, new_size) ==
    LET g == IF new_size > a.capacity THEN ArrayGrow(a, new_size) ELSE a
    IN  [g EXCEPT !.size = new_size]

ArrayReserve(a, capacity) ==
    IF capacity > a.capacity THEN ArrayGrow(a, capacity) ELSE a

ArrayClear(a) == [a EXCEPT !.size = 0]

ArrayPushBack(a, value) ==
    LET g == IF a.size = a.capacity THEN ArrayGrow(a, a.size + 1) ELSE a
    IN  [g EXCEPT !.mem = Poke(g.mem, g.size, value), !.size = g.size + 1]

\* Array::append(begin, end) with the elements [begin, end) given as text
ArrayAppend(a, text) ==
    LET num_elements == Len(text)
        g == IF a.size + num_elements > a.capacity
             THEN ArrayGrow(a, num_elements) ELSE a
    IN  [g EXCEPT !.mem = CopyTo(g.mem, g.size, text),
                  !.size = g.size + num_elements]

\* The characters of the array, [0, size_)
Content(a) == [i \in 1..a.size |-> Peek(a.mem, i - 1)]

\* a GrowBuffer that makes room for one element more than asked
GrowBuffer_OneMore(buf, n) == ArrayResize(buf, buf.size + n + 1)
\* BasicFormatter::GrowBuffer returns &buffer_[size] of the size before.
GrowBuffer(buf, n) == ArrayResize(buf, buf.size + n)

(***************************************************************************)
(* FormatSpec and the argument kinds                                       *)
(***************************************************************************)
ALIGN_DEFAULT == "ALIGN_DEFAULT"
ALIGN_LEFT == "ALIGN_LEFT"
ALIGN_RIGHT == "ALIGN_RIGHT"
ALIGN_CENTER == "ALIGN_CENTER"
ALIGN_NUMERIC == "ALIGN_NUMERIC"

SIGN_FLAG == "SIGN_FLAG"
PLUS_FLAG == "PLUS_FLAG"
HASH_FLAG == "HASH_FLAG"

\* FormatSpec(): align default, no flags, width 0, type 0, fill ' '
FormatSpec == [align |-> ALIGN_DEFAULT, flags |-> {}, width |-> 0,
               type |-> NUL, fill |-> " "]

NumericTypes == {"INT", "UINT", "LONG", "ULONG", "DOUBLE", "LONG_DOUBLE"}
\* arg.type > LAST_NUMERIC_TYPE
NotNumeric(type) == type \notin NumericTypes

\* IntTraits<T>: the width of T and whether T has negative values
BitsOf(type) == IF type \in {"INT", "UINT"} THEN IntBits ELSE LongBits
IsSignedType(type) == type \in {"INT", "LONG"}
IntTraitsIsNegative(type, value) == IsSignedType(type) /\ value < 0

\* conversion of a value to the unsigned type of w bits
ToUnsigned(value, w) == value % Pow2(w)

NoError == <<>>
FormatError(message) == <<message>>
ReportUnknownType(code, type) == <<"unknown format code", code, type>>

(***************************************************************************)
(* The decimal encoder                                                     *)
(***************************************************************************)
RECURSIVE CountDigitsLoop(_, _)
CountDigitsLoop(n, count) ==
    IF n < 10 THEN count
    ELSE IF n < 100 THEN count + 1
    ELSE IF n < 1000 THEN count + 2
    ELSE IF n < 10000 THEN count + 3
    ELSE CountDigitsLoop(n \div 10000, count + 4)

\* a CountDigits that starts counting from two
CountDigits_OneMore(n) == CountDigitsLoop(n, 2)
CountDigits(n) == CountDigitsLoop(n, 1)

DIGITS ==
    << "0", "0", "0", "1", "0", "2", "0", "3", "0", "4", "0", "5", "0", "6", "0", "7", "0", "8", "0", "9",
       "1", "0", "1", "1", "1", "2", "1", "3", "1", "4", "1", "5", "1", "6", "1", "7", "1", "8", "1", "9",
       "2", "0", "2", "1", "2", "2", "2", "3", "2", "4", "2", "5", "2", "6", "2", "7", "2", "8", "2", "9",
       "3", "0", "3", "1", "3", "2", "3", "3", "3", "4", "3", "5", "3", "6", "3", "7", "3", "8", "3", "9",
       "4", "0", "4", "1", "4", "2", "4", "3", "4", "4", "4", "5", "4", "6", "4", "7", "4", "8", "4", "9",
       "5", "0", "5", "1", "5", "2", "5", "3", "5", "4", "5", "5", "5", "6", "5", "7", "5", "8", "5", "9",
       "6", "0", "6", "1", "6", "2", "6", "3", "6", "4", "6", "5", "6", "6", "6", "7", "6", "8", "6", "9",
       "7", "0", "7", "1", "7", "2", "7", "3", "7", "4", "7", "5", "7", "6", "7", "7", "7", "8", "7", "9",
       "8", "0", "8", "1", "8", "2", "8", "3", "8", "4", "8", "5", "8", "6", "8", "7", "8", "8", "8", "9",
       "9", "0", "9", "1", "9", "2", "9", "3", "9", "4", "9", "5", "9", "6", "9", "7", "9", "8", "9", "9" >>

\* DIGITS[index] with the 0-based index of the source
DigitsAt(index) == DIGITS[index + 1]

\* FormatDecimal(buffer, value, num_digits); num_digits is already decremented
RECURSIVE FormatDecimalLoop(_, _, _, _)
FormatDecimalLoop(mem, buffer, value, num_digits) ==
    IF value >= 100
    THEN LET index == (value % 100) * 2
             m1 == Poke(mem, buffer + num_digits, DigitsAt(index + 1))
             m2 == Poke(m1, buffer + num_digits - 1, DigitsAt(index))
         IN  FormatDecimalLoop(m2, buffer, value \div 100, num_digits - 2)
    ELSE IF value < 10
    THEN Poke(mem, buffer, DigitChar(value))
    ELSE LET index == value * 2
         IN  Poke(Poke(mem, buffer + 1, DigitsAt(index + 1)), buffer, DigitsAt(index))

FormatDecimal(mem, buffer, value, num_digits) ==
    FormatDecimalLoop(mem, buffer, value, num_digits - 1)

(***************************************************************************)
(* Padding                                                                 *)
(***************************************************************************)
\* a FillPadding that gives the odd fill character to the left
FillPadding_ExtraLeft(mem, buffer, total_size, content_size, fill) ==
    LET padding == total_size - content_size
        left_padding == padding - padding \div 2
        m1 == Fill(mem, buffer, buffer + left_padding, fill)
        content == buffer + left_padding
        m2 == Fill(m1, content + content_size,
                   content + content_size + (padding - left_padding), fill)
    IN  [mem |-> m2, content |-> content]

\* FillPadding: fills the padding around the content and returns the offset
\* of the content area.
FillPadding(mem, buffer, total_size, content_size, fill) ==
    LET padding == total_size - content_size
        left_padding == padding \div 2
        m1 == Fill(mem, buffer, buffer + left_padding, fill)
        content == buffer + left_padding
        m2 == Fill(m1, content + content_size,
                   content + content_size + (padding - left_padding), fill)
    IN  [mem |-> m2, content |-> content]

\* a PrepareFilledBuffer that treats numeric alignment as right alignment
PrepareFilledBuffer_SignAfterFill(buf, size, spec, sign) ==
    LET p == buf.size
        end == p + spec.width
        Plain(g) ==
            [buf |-> [g EXCEPT !.mem = Poke(g.mem, p, sign)], p |-> p + size - 1]
        Left(g) ==
            [buf |-> [g EXCEPT !.mem = Fill(Poke(g.mem, p, sign), p + size, end,
                                            spec.fill)],
             p |-> p + size - 1]
        Centered(g, f) ==
            [buf |-> [g EXCEPT !.mem = Poke(f.mem, f.content, sign)],
             p |-> f.content + size - 1]
        Center(g) == Centered(g, FillPadding(g.mem, p, spec.width, size, spec.fill))
        Right(g) ==
            [buf |-> [g EXCEPT !.mem = Fill(Poke(g.mem, end - size, sign), p,
                                            end - size, spec.fill)],
             p |-> end - 1]
        Padded(g) ==
            IF spec.align = ALIGN_LEFT THEN Left(g)
            ELSE IF spec.align = ALIGN_CENTER THEN Center(g)
            ELSE Right(g)
    IN  IF spec.width <= size THEN Plain(GrowBuffer(buf, size))
        ELSE Padded(GrowBuffer(buf, spec.width))

\* BasicFormatter::PrepareFilledBuffer: the buffer after it and the offset
\* it returns (the last character of the content area).
PrepareFilledBuffer(buf, size, spec, sign) ==
    LET p == buf.size
        end == p + spec.width
        Plain(g) ==
            [buf |-> [g EXCEPT !.mem = Poke(g.mem, p, sign)], p |-> p + size - 1]
        Left(g) ==
            [buf |-> [g EXCEPT !.mem = Fill(Poke(g.mem, p, sign), p + size, end,
                                            spec.fill)],
             p |-> p + size - 1]
        Centered(g, f) ==
            [buf |-> [g EXCEPT !.mem = Poke(f.mem, f.content, sign)],
             p |-> f.content + size - 1]
        Center(g) == Centered(g, FillPadding(g.mem, p, spec.width, size, spec.fill))
        Numeric(g) ==
            [buf |-> [g EXCEPT !.mem =
                         IF sign # NUL
                         THEN Fill(Poke(g.mem, p, sign), p + 1, end - (size - 1),
                                   spec.fill)
                         ELSE Fill(g.mem, p, end - size, spec.fill)],
             p |-> end - 1]
        Right(g) ==
            [buf |-> [g EXCEPT !.mem = Fill(Poke(g.mem, end - size, sign), p,
                                            end - size, spec.fill)],
             p |-> end - 1]
        Padded(g) ==
            IF spec.align = ALIGN_LEFT THEN Left(g)
            ELSE IF spec.align = ALIGN_CENTER THEN Center(g)
            ELSE IF spec.align = ALIGN_NUMERIC THEN Numeric(g)
            ELSE Right(g)
    IN  IF spec.width <= size THEN Plain(GrowBuffer(buf, size))
        ELSE Padded(GrowBuffer(buf, spec.width))

(***************************************************************************)
(* BasicFormatter::FormatInt<T>, T given by the argument kind              *)
(***************************************************************************)
LowerHexDigits == <<"0", "1", "2", "3", "4", "5", "6", "7",
                    "8", "9", "a", "b", "c", "d", "e", "f">>
UpperHexDigits == <<"0", "1", "2", "3", "4", "5", "6", "7",
                    "8", "9", "A", "B", "C", "D", "E", "F">>

\* do { ++size; } while ((n >>= shift) != 0);
RECURSIVE CountShiftDigits(_, _)
CountShiftDigits(n, shift) ==
    IF n \div Pow2(shift) = 0 THEN 1
    ELSE 1 + CountShiftDigits(n \div Pow2(shift), shift)

\* do { *p-- = digits[n & mask]; } while ((n >>= shift) != 0);
\* the memory after it and the final p
RECURSIVE WriteShiftDigits(_, _, _, _, _)
WriteShiftDigits(mem, p, n, shift, digits) ==
    LET m1 == Poke(mem, p, digits[(n % Pow2(shift)) + 1])
    IN  IF n \div Pow2(shift) = 0 THEN [mem |-> m1, p |-> p - 1]
        ELSE WriteShiftDigits(m1, p - 1, n \div Pow2(shift), shift, digits)

\* The sign character and the magnitude FormatInt starts from.
IntSign(type, value, spec) ==
    IF IntTraitsIsNegative(type, value) THEN "-"
    ELSE IF SIGN_FLAG \in spec.flags
    THEN (IF PLUS_FLAG \in spec.flags THEN "+" ELSE " ")
    ELSE NUL

\* a FormatInt that does not negate a negative value
IntAbsValue_Unnegated(type, value) == ToUnsigned(value, BitsOf(type))

IntAbsValue(type, value) ==
    LET abs_value == ToUnsigned(value, BitsOf(type))
    IN  IF IntTraitsIsNegative(type, value)
        THEN ToUnsigned(0 - abs_value, BitsOf(type))
        ELSE abs_value

FormatInt(buf, type, value, spec) ==
    LET sign == IntSign(type, value, spec)
        size == IF sign # NUL THEN 1 ELSE 0
        abs_value == IntAbsValue(type, value)
        print_prefix == HASH_FLAG \in spec.flags
        Done(r, mem) == [buf |-> [r.buf EXCEPT !.mem = mem], err |-> NoError]
        Prepared(n) == PrepareFilledBuffer(buf, size + n, spec, sign)
        DecimalIn(r, num_digits) ==
            Done(r, FormatDecimal(r.buf.mem, r.p - num_digits + 1, abs_value,
                                  num_digits))
        DecimalOf(num_digits) == DecimalIn(Prepared(num_digits), num_digits)
        HexPrefixed(r, w) ==
            Done(r, IF print_prefix
                    THEN Poke(Poke(w.mem, w.p, spec.type), w.p - 1, "0")
                    ELSE w.mem)
        HexIn(r) ==
            HexPrefixed(r, WriteShiftDigits(r.buf.mem, r.p, abs_value, 4,
                               IF spec.type = "x" THEN LowerHexDigits
                               ELSE UpperHexDigits))
        OctalPrefixed(r, w) ==
            Done(r, IF print_prefix THEN Poke(w.mem, w.p, "0") ELSE w.mem)
        OctalIn(r) ==
            OctalPrefixed(r, WriteShiftDigits(r.buf.mem, r.p, abs_value, 3,
                                              DecimalDigits))
    IN  IF spec.type \in {NUL, "d"}
        THEN DecimalOf(CountDigits(abs_value))
        ELSE IF spec.type \in {"x", "X"}
        THEN HexIn(Prepared((IF print_prefix THEN 2 ELSE 0)
                            + CountShiftDigits(abs_value, 4)))
        ELSE IF spec.type = "o"
        THEN OctalIn(Prepared((IF print_prefix THEN 1 ELSE 0)
                              + CountShiftDigits(abs_value, 3)))
        ELSE [buf |-> buf, err |-> ReportUnknownType(spec.type, "integer")]

(***************************************************************************)
(* BasicFormatter::FormatString: the buffer after it and the offset `out`  *)
(* it returns.                                                             *)
(***************************************************************************)
\* a FormatString that puts the fill first under the default alignment too
FormatString_DefaultRight(buf, s, size, spec) ==
    IF spec.width > size
    THEN LET g == GrowBuffer(buf, spec.width)
             out0 == buf.size
         IN  IF spec.align \in {ALIGN_RIGHT, ALIGN_DEFAULT}
             THEN LET m1 == Fill(g.mem, out0, out0 + (spec.width - size), spec.fill)
                      out == out0 + (spec.width - size)
                  IN  [buf |-> [g EXCEPT !.mem = CopyTo(m1, out, SubSeq(s, 1, size))],
                       out |-> out]
             ELSE IF spec.align = ALIGN_CENTER
             THEN LET f == FillPadding(g.mem, out0, spec.width, size, spec.fill)
                  IN  [buf |-> [g EXCEPT !.mem =
                                   CopyTo(f.mem, f.content, SubSeq(s, 1, size))],
                       out |-> f.content]
             ELSE LET m1 == Fill(g.mem, out0 + size, out0 + spec.width, spec.fill)
                  IN  [buf |-> [g EXCEPT !.mem = CopyTo(m1, out0, SubSeq(s, 1, size))],
                       out |-> out0]
    ELSE LET g == GrowBuffer(buf, size)
         IN  [buf |-> [g EXCEPT !.mem = CopyTo(g.mem, buf.size, SubSeq(s, 1, size))],
              out |-> buf.size]

FormatString(buf, s, size, spec) ==
    IF spec.width > size
    THEN LET g == GrowBuffer(buf, spec.width)
             out0 == buf.size
         IN  IF spec.align = ALIGN_RIGHT
             THEN LET m1 == Fill(g.mem, out0, out0 + (spec.width - size), spec.fill)
                      out == out0 + (spec.width - size)
                  IN  [buf |-> [g EXCEPT !.mem = CopyTo(m1, out, SubSeq(s, 1, size))],
                       out |-> out]
             ELSE IF spec.align = ALIGN_CENTER
             THEN LET f == FillPadding(g.mem, out0, spec.width, size, spec.fill)
                  IN  [buf |-> [g EXCEPT !.mem =
                                   CopyTo(f.mem, f.content, SubSeq(s, 1, size))],
                       out |-> f.content]
             ELSE LET m1 == Fill(g.mem, out0 + size, out0 + spec.width, spec.fill)
                  IN  [buf |-> [g EXCEPT !.mem = CopyTo(m1, out0, SubSeq(s, 1, size))],
                       out |-> out0]
    ELSE LET g == GrowBuffer(buf, size)
         IN  [buf |-> [g EXCEPT !.mem = CopyTo(g.mem, buf.size, SubSeq(s, 1, size))],
              out |-> buf.size]

(***************************************************************************)
(* BasicFormatter::FormatDouble<T>.  A floating-point value is             *)
(* [cls, neg, text]: cls is "nan", "inf" or "finite", neg is its sign bit, *)
(* and text is the digit text the platform's snprintf generates for the    *)
(* magnitude of a finite value.  Digit generation belongs to the platform; *)
(* the padding snprintf adds for a width, its truncation to the size it is *)
(* given, its terminator and its return value are modelled as C99 has      *)
(* them.                                                                   *)
(***************************************************************************)
\* what snprintf would write had it room: text padded with spaces to width,
\* on the right of the text under the '-' flag and on the left otherwise
SnprintfText(text, width, left) ==
    IF Len(text) >= width THEN text
    ELSE IF left THEN text \o Rep(" ", width - Len(text))
    ELSE Rep(" ", width - Len(text)) \o text

\* snprintf(start, size, ...): at most size - 1 characters and a terminator
\* are written (nothing when size is 0); the full length is returned.
Snprintf(mem, start, size, full) ==
    LET n == Len(full)
        k == Min(n, size - 1)
    IN  [mem |-> IF size <= 0 THEN mem
                 ELSE Poke(CopyTo(mem, start, SubSeq(full, 1, k)), start + k, NUL),
         n |-> n]

\* the loop that replaces leading spaces by the fill character: the memory
\* and the final start
RECURSIVE ReplaceLeadingSpaces(_, _, _)
ReplaceLeadingSpaces(mem, start, fill) ==
    IF Peek(mem, start) = " "
    THEN ReplaceLeadingSpaces(Poke(mem, start, fill), start + 1, fill)
    ELSE [mem |-> mem, start |-> start]

\* std::copy(first, first + n, result) on offsets of one memory, with
\* elements assigned one by one from the first: a result inside
\* [first, first + n) reads cells the copy has already overwritten.
RECURSIVE CopyForward(_, _, _, _)
CopyForward(mem, first, n, result) ==
    IF n <= 0 THEN mem
    ELSE CopyForward(Poke(mem, result, Peek(mem, first)), first + 1, n - 1, result + 1)

\* the same copy done as memmove does it: the source is read as it was
CopyMoved(mem, first, n, result) ==
    CopyTo(mem, result, [i \in 1..n |-> Peek(mem, first + i - 1)])

\* std::copy requires that result is not in [first, first + n); when it is,
\* the behaviour is undefined and `copy` tells what the library does
CopyOverlaps(first, n, result) == n > 0 /\ first <= result /\ result < first + n

StdCopy(mem, first, n, result, copy) ==
    IF CopyOverlaps(first, n, result) /\ copy = "forward"
    THEN CopyForward(mem, first, n, result)
    ELSE CopyMoved(mem, first, n, result)

\* the body of for (;;) in FormatDouble: the buffer after it, and whether
\* it made a copy onto its own source
RECURSIVE FormatDoubleLoop(_, _, _, _, _, _, _)
FormatDoubleLoop(buf, offset, spec, sign, width_for_sprintf, text, copy) ==
    LET size == buf.capacity - offset
        start == offset
        full == SnprintfText(text, width_for_sprintf, spec.align = ALIGN_LEFT)
        sn == Snprintf(buf.mem, start, size, full)
        n0 == sn.n
    IN  IF offset + n0 < buf.capacity
        THEN LET keep == sign # NUL
                         /\ ~(spec.align \notin {ALIGN_RIGHT, ALIGN_DEFAULT}
                              \/ Peek(sn.mem, start) # " ")
                 m1 == IF sign = NUL THEN sn.mem
                       ELSE IF keep THEN Poke(sn.mem, start - 1, spec.fill)
                       ELSE Poke(sn.mem, start - 1, sign)
                 sign1 == IF keep THEN sign ELSE NUL
                 n == IF sign # NUL THEN n0 + 1 ELSE n0
             IN  IF spec.align = ALIGN_CENTER /\ spec.width > n
                 THEN LET g == GrowBuffer([buf EXCEPT !.mem = m1], spec.width)
                          p == buf.size
                          to == p + (spec.width - n) \div 2
                          m2 == StdCopy(g.mem, p, n, to, copy)
                          f == FillPadding(m2, p, spec.width, n, spec.fill)
                      IN  [buf |-> [g EXCEPT !.mem = f.mem], err |-> NoError,
                           overlap |-> CopyOverlaps(p, n, to)]
                 ELSE LET r == IF spec.fill # " " \/ sign1 # NUL
                               THEN ReplaceLeadingSpaces(m1, start, spec.fill)
                               ELSE [mem |-> m1, start |-> start]
                          m3 == IF (spec.fill # " " \/ sign1 # NUL) /\ sign1 # NUL
                                THEN Poke(r.mem, r.start - 1, sign1)
                                ELSE r.mem
                      IN  [buf |-> GrowBuffer([buf EXCEPT !.mem = m3], n),
                           err |-> NoError, overlap |-> FALSE]
        ELSE FormatDoubleLoop(ArrayReserve([buf EXCEPT !.mem = sn.mem], offset + n0 + 1),
                              offset, spec, sign, width_for_sprintf, text, copy)

\* a FormatDouble that knows the lower-case words only
SpecialText_Lower(cls, upper) ==
    IF cls = "nan" THEN <<" ", "n", "a", "n">> ELSE <<" ", "i", "n", "f">>

\* " NAN", " nan", " INF", " inf"
SpecialText(cls, upper) ==
    IF cls = "nan"
    THEN (IF upper THEN <<" ", "N", "A", "N">> ELSE <<" ", "n", "a", "n">>)
    ELSE (IF upper THEN <<" ", "I", "N", "F">> ELSE <<" ", "i", "n", "f">>)

FormatDouble(buf, value, spec, precision, copy) ==
    IF spec.type \notin {NUL, "e", "f", "g", "F", "E", "G"}
    THEN [buf |-> buf, err |-> ReportUnknownType(spec.type, "double")]
    ELSE
    LET upper == spec.type \in {"F", "E", "G"}
        sign == IF value.neg THEN "-"
                ELSE IF SIGN_FLAG \in spec.flags
                THEN (IF PLUS_FLAG \in spec.flags THEN "+" ELSE " ")
                ELSE NUL
    IN  IF value.cls \in {"nan", "inf"}
        THEN LET t == SpecialText(value.cls, upper)
                 s == IF sign = NUL THEN Tail(t) ELSE t
                 r == FormatString(buf, s, Len(s), spec)
             IN  [buf |-> IF sign # NUL
                          THEN [r.buf EXCEPT !.mem = Poke(r.buf.mem, r.out, sign)]
                          ELSE r.buf,
                  err |-> NoError]
        ELSE LET b1 == IF sign # NUL
                       THEN ArrayReserve(buf, buf.size + Max(spec.width, 1))
                       ELSE buf
                 width == IF sign # NUL /\ spec.width > 0
                          THEN spec.width - 1 ELSE spec.width
                 offset == IF sign # NUL THEN buf.size + 1 ELSE buf.size
                 width_for_sprintf == IF spec.align = ALIGN_CENTER THEN 0 ELSE width
             IN  FormatDoubleLoop(b1, offset, spec, sign, width_for_sprintf,
                                  value.text, copy)

(***************************************************************************)
(* The format-string parser.  A format string is the text before its       *)
(* terminator; s, start and p are 0-based offsets into it.                 *)
(*                                                                         *)
(* The parser works on a record st:                                        *)
(*   s, start       the cursor and the start of the pending literal text   *)
(*   buf            buffer_                                                *)
(*   next, nob      next_arg_index_ and num_open_braces_                   *)
(*   err            NoError, the FormatError thrown, or Crashed            *)
(*   arg, spec, precision   the locals of DoFormat for the current field   *)
(* and on history kept for the properties:                                 *)
(*   reads          one entry per argument index ParseArgIndex resolved    *)
(*   modes          one entry per field whose index syntax was accepted    *)
(*   runs           one entry per digit run ParseUInt returned             *)
(*   pieces         one entry per append of literal text and per rendered  *)
(*                  argument, in output order                              *)
(*   report         the call of ReportError that ended the run, if one did *)
(*   ubArg, ubHeap  whether an argument was read outside args_ or after    *)
(*                  its destruction, and whether append wrote beyond the   *)
(*                  capacity of the buffer                                 *)
(*   ubCopy         whether std::copy was given a destination inside its   *)
(*                  source                                                 *)
(* cx holds what a call does not change: fmt, args (the Array args_),      *)
(* temps (the objects the pointers of args_ refer to), and ub, the         *)
(* outcome of undefined behaviour should the call run into it: ub.arg is   *)
(* what an invalid argument read finds, ub.argCrash whether it kills the   *)
(* process instead, ub.heap what becomes of bytes written beyond the       *)
(* buffer ("intact", "garbled" or "crash"), ub.copy how std::copy copies    *)
(* onto its own source ("memmove" or "forward").                           *)
(***************************************************************************)
\* *s, where the terminator of the string reads as NUL
CharAt(fmt, s) == IF s >= 0 /\ s < Len(fmt) THEN fmt[s + 1] ELSE NUL

\* The process died: the outcome of undefined behaviour the platform detects.
Crashed == <<"crashed">>

UnmatchedOpen == FormatError("unmatched '{' in format")
UnmatchedClose == FormatError("unmatched '}' in format")
NumberTooBig == FormatError("number is too big in format")
InvalidArgIndex == FormatError("invalid argument index in format string")
SwitchToAutomatic ==
    FormatError("cannot switch from manual to automatic argument indexing")
SwitchToManual ==
    FormatError("cannot switch from automatic to manual argument indexing")
IndexOutOfRange == FormatError("argument index is out of range in format")

\* Formatter::ReportError: the error it throws
RECURSIVE ReportErrorScan(_, _, _, _)
ReportErrorScan(fmt, s, num_open_braces, message) ==
    IF CharAt(fmt, s) = NUL THEN UnmatchedOpen
    ELSE IF CharAt(fmt, s) = "{"
    THEN ReportErrorScan(fmt, s + 1, num_open_braces + 1, message)
    ELSE IF CharAt(fmt, s) = "}"
    THEN (IF num_open_braces - 1 = 0 THEN message
          ELSE ReportErrorScan(fmt, s + 1, num_open_braces - 1, message))
    ELSE ReportErrorScan(fmt, s + 1, num_open_braces, message)

\* a ReportError that takes one brace to be open wherever it is called
ReportError_OneOpen(fmt, s, num_open_braces, message) ==
    ReportErrorScan(fmt, s, 1, message)

ReportError(fmt, s, num_open_braces, message) ==
    ReportErrorScan(fmt, s, num_open_braces, message)

\* a call of ReportError as the history keeps it: where the scan begins, the
\* braces open there and the message handed over
NoReport == [pos |-> -1, depth |-> 0, message |-> NoError]
Reported(s, num_open_braces, message) ==
    [pos |-> s, depth |-> num_open_braces, message |-> message]

\* ReportError(s, message) called in the state st of the parser
Report(cx, st, s, message) ==
    [st EXCEPT !.err = ReportError(cx.fmt, s, st.nob, message),
               !.report = Reported(s, st.nob, message)]

\* Formatter::ParseUInt: the cursor after the digits, the value, the value
\* the digits denote (math), and the error thrown
RECURSIVE ParseUIntLoop(_, _, _, _, _)
ParseUIntLoop(fmt, s, value, math, nob) ==
    LET digit == DigitValue(CharAt(fmt, s))
        new_value == (value * 10 + digit) % Pow2(IntBits)
        s1 == s + 1
    IN  IF new_value < value
        THEN [s |-> s1, value |-> value, math |-> math * 10 + digit,
              err |-> ReportError(fmt, s1, nob, NumberTooBig),
              report |-> Reported(s1, nob, NumberTooBig)]
        ELSE IF IsDigit(CharAt(fmt, s1))
        THEN ParseUIntLoop(fmt, s1, new_value, math * 10 + digit, nob)
        ELSE [s |-> s1, value |-> new_value, math |-> math * 10 + digit,
              err |-> NoError, report |-> NoReport]

ParseUInt(fmt, s, nob) == ParseUIntLoop(fmt, s, 0, 0, nob)

\* *args_[arg_index]: the Arg the pointer refers to.  An index outside
\* [0, size) reads a cell of args_ that holds no argument of this call, and
\* a pointer to a destroyed temporary dangles: either way what is read is
\* whatever the memory holds (cx.ub.arg), or the process dies.
ArgIsDefined(cx, arg_index) ==
    /\ arg_index < cx.args.size
    /\ cx.temps[Peek(cx.args.mem, arg_index)].alive

ReadArg(cx, arg_index) ==
    IF ArgIsDefined(cx, arg_index)
    THEN cx.temps[Peek(cx.args.mem, arg_index)].arg
    ELSE cx.ub.arg

\* whether such a read kills the process
ReadCrashes(cx, arg_index) == ~ArgIsDefined(cx, arg_index) /\ cx.ub.argCrash

\* Formatter::ParseArgIndex: the conditions it tests and the step of the
\* automatic index
SwitchesToAutomatic(next) == next < 0
\* a ParseArgIndex that lets a manual index follow automatic ones
SwitchesToManual_Never(next) == FALSE
SwitchesToManual(next) == next > 0
\* a ParseArgIndex that reads one position past the argument list
ArgIndexOutOfRange_OffByOne(arg_index, size) == arg_index > size
ArgIndexOutOfRange(arg_index, size) == arg_index >= size
\* a ParseArgIndex that does not advance the automatic index
AutoIndexAfter_Stuck(next) == next
AutoIndexAfter(next) == next + 1

\* return *args_[arg_index];
ResolveArg(cx, st, arg_index, manual, nested) ==
    LET defined == ArgIsDefined(cx, arg_index)
        read == [index |-> arg_index, manual |-> manual, nested |-> nested,
                 defined |-> defined, arg |-> ReadArg(cx, arg_index), pos |-> st.s]
    IN  [st EXCEPT !.reads = Append(@, read),
                   !.ubArg = @ \/ ~defined,
                   !.err = IF ReadCrashes(cx, arg_index) THEN Crashed ELSE @,
                   !.arg = ReadArg(cx, arg_index)]

\* Formatter::ParseArgIndex.  modes records, for each field whose index
\* syntax was accepted, whether it is manual, where its index ends and how
\* many braces are open there.
ParseArgIndex(cx, st, nested) ==
    LET c == CharAt(cx.fmt, st.s)
        mode == [manual |-> IsDigit(c), nested |-> nested,
                 pos |-> st.s, depth |-> st.nob]
        seen == [st EXCEPT !.modes = Append(@, mode)]
        Manual(u) ==
            LET run == [what |-> "index", value |-> u.value, math |-> u.math,
                        pos |-> u.s, depth |-> st.nob]
                st1 == [seen EXCEPT !.next = -1, !.s = u.s]
            IN  IF u.err # NoError
                THEN [st1 EXCEPT !.err = u.err, !.report = u.report]
                ELSE IF ArgIndexOutOfRange(u.value, cx.args.size)
                THEN Report(cx, [st1 EXCEPT !.runs = Append(@, run)], u.s,
                            IndexOutOfRange)
                ELSE ResolveArg(cx, [st1 EXCEPT !.runs = Append(@, run)],
                                u.value, TRUE, nested)
    IN  IF ~IsDigit(c)
        THEN IF c # "}" /\ c # ":"
             THEN Report(cx, st, st.s, InvalidArgIndex)
             ELSE IF SwitchesToAutomatic(st.next)
             THEN Report(cx, seen, st.s, SwitchToAutomatic)
             ELSE ResolveArg(cx, [seen EXCEPT !.next = AutoIndexAfter(@)],
                             st.next, FALSE, nested)
        ELSE IF SwitchesToManual(st.next)
        THEN Report(cx, seen, st.s, SwitchToManual)
        ELSE Manual(ParseUInt(cx.fmt, st.s, st.nob))

\* an exception was thrown: no later step of the call runs
Thrown(st) == st.err # NoError

\* Formatter::CheckSign
CheckSign(cx, st) ==
    LET c == CharAt(cx.fmt, st.s)
    IN  IF NotNumeric(st.arg.type)
        THEN Report(cx, st, st.s,
                    <<"format specifier requires numeric argument", c>>)
        ELSE IF st.arg.type \in {"UINT", "ULONG"}
        THEN Report(cx, st, st.s,
                    <<"format specifier requires signed argument", c>>)
        ELSE [st EXCEPT !.s = @ + 1]

\* the alignment an alignment symbol selects
AlignOf(c) ==
    IF c = "<" THEN ALIGN_LEFT
    ELSE IF c = ">" THEN ALIGN_RIGHT
    ELSE IF c = "=" THEN ALIGN_NUMERIC
    ELSE IF c = "^" THEN ALIGN_CENTER
    ELSE ALIGN_DEFAULT

NumericAlignError == FormatError("format specifier '=' requires numeric argument")

\* DoFormat, "Parse fill and alignment": st.s is just after the ':'
ParseFillAlign(cx, st) ==
    LET c == CharAt(cx.fmt, st.s)
        a1 == AlignOf(CharAt(cx.fmt, st.s + 1))
        a2 == AlignOf(c)
        Checked(t) ==
            IF t.spec.align = ALIGN_NUMERIC /\ NotNumeric(t.arg.type)
            THEN Report(cx, t, t.s, NumericAlignError)
            ELSE t
    IN  IF c = NUL THEN st
        ELSE IF a1 # ALIGN_DEFAULT
        THEN IF c = "}" THEN [st EXCEPT !.spec.align = a1]
             ELSE IF c = "{"
             THEN Report(cx, [st EXCEPT !.spec.align = a1], st.s,
                         FormatError("invalid fill character '{'"))
             ELSE Checked([st EXCEPT !.spec.align = a1, !.spec.fill = c, !.s = @ + 2])
        ELSE IF a2 # ALIGN_DEFAULT
        THEN Checked([st EXCEPT !.spec.align = a2, !.s = @ + 1])
        ELSE st

\* DoFormat, "Parse sign"
ParseSign(cx, st) ==
    LET c == CharAt(cx.fmt, st.s)
        Flagged(t) ==
            IF t.err # NoError THEN t
            ELSE IF c = "+" THEN [t EXCEPT !.spec.flags = @ \cup {SIGN_FLAG, PLUS_FLAG}]
            ELSE IF c = " " THEN [t EXCEPT !.spec.flags = @ \cup {SIGN_FLAG}]
            ELSE t
    IN  IF Thrown(st) \/ c \notin {"+", "-", " "} THEN st
        ELSE Flagged(CheckSign(cx, st))

\* DoFormat, the '#' flag
ParseHash(cx, st) ==
    IF Thrown(st) \/ CharAt(cx.fmt, st.s) # "#" THEN st
    ELSE IF NotNumeric(st.arg.type)
    THEN Report(cx, st, st.s,
                FormatError("format specifier '#' requires numeric argument"))
    ELSE [st EXCEPT !.spec.flags = @ \cup {HASH_FLAG}, !.s = @ + 1]

\* DoFormat, "Parse width and zero flag"
ParseWidth(cx, st) ==
    LET c == CharAt(cx.fmt, st.s)
        zero == c = "0"
        st1 == IF zero
               THEN [st EXCEPT !.spec.align = ALIGN_NUMERIC, !.spec.fill = "0"]
               ELSE st
        Width(u) ==
            LET run == [what |-> "width", value |-> u.value, math |-> u.math,
                        pos |-> u.s, depth |-> st.nob]
            IN  IF u.err # NoError
                THEN [st1 EXCEPT !.s = u.s, !.err = u.err, !.report = u.report]
                ELSE IF u.value > INT_MAX
                THEN Report(cx, [st1 EXCEPT !.s = u.s], u.s, NumberTooBig)
                ELSE [st1 EXCEPT !.s = u.s, !.spec.width = u.value,
                                 !.runs = Append(@, run)]
    IN  IF Thrown(st) \/ ~IsDigit(c) THEN st
        ELSE IF zero /\ NotNumeric(st.arg.type)
        THEN Report(cx, st, st.s,
                    FormatError("format specifier '0' requires numeric argument"))
        ELSE Width(ParseUInt(cx.fmt, st.s, st.nob))

\* DoFormat, "Parse precision": the nested field {index} of a precision
NestedPrecision(cx, st) ==
    LET Precision(t0) ==
            LET precision_arg == t0.arg
                t == [t0 EXCEPT !.arg = st.arg]
                negative == /\ precision_arg.type \in {"INT", "LONG"}
                            /\ precision_arg.value < 0
                value == precision_arg.value
            IN  IF t0.err # NoError THEN t
                ELSE IF precision_arg.type \notin {"INT", "UINT", "LONG", "ULONG"}
                THEN Report(cx, t, t0.s, FormatError("precision is not integer"))
                ELSE IF negative
                THEN Report(cx, t, t0.s, FormatError("negative precision in format"))
                ELSE IF value > INT_MAX
                THEN Report(cx, t, t0.s, NumberTooBig)
                ELSE IF CharAt(cx.fmt, t0.s) # "}"
                THEN [t EXCEPT !.precision = value, !.s = @ + 1, !.err = UnmatchedOpen]
                ELSE [t EXCEPT !.precision = value, !.s = @ + 1, !.nob = @ - 1]
    IN  Precision(ParseArgIndex(cx, [st EXCEPT !.s = @ + 1, !.nob = @ + 1], TRUE))

ParsePrecision(cx, st) ==
    LET s1 == st.s + 1
        c == CharAt(cx.fmt, s1)
        Digits(u) ==
            LET run == [what |-> "precision", value |-> u.value, math |-> u.math,
                        pos |-> u.s, depth |-> st.nob]
            IN  IF u.err # NoError
                THEN [st EXCEPT !.s = u.s, !.err = u.err, !.report = u.report]
                ELSE IF u.value > INT_MAX
                THEN Report(cx, [st EXCEPT !.s = u.s], u.s, NumberTooBig)
                ELSE [st EXCEPT !.s = u.s, !.precision = u.value,
                                !.runs = Append(@, run)]
        Floating(t) ==
            IF t.err # NoError THEN t
            ELSE IF t.arg.type \notin {"DOUBLE", "LONG_DOUBLE"}
            THEN Report(cx, t, t.s,
                     FormatError("precision specifier requires floating-point argument"))
            ELSE t
    IN  IF Thrown(st) \/ CharAt(cx.fmt, st.s) # "." THEN st
        ELSE IF IsDigit(c) THEN Floating(Digits(ParseUInt(cx.fmt, s1, st.nob)))
        ELSE IF c = "{"
        THEN Floating(NestedPrecision(cx, [st EXCEPT !.s = s1, !.precision = 0]))
        ELSE Report(cx, [st EXCEPT !.s = s1, !.precision = 0], s1,
                    FormatError("missing precision in format"))

\* DoFormat, "Parse type"
ParseType(cx, st) ==
    LET c == CharAt(cx.fmt, st.s)
    IN  IF ~Thrown(st) /\ c # "}" /\ c # NUL
        THEN [st EXCEPT !.spec.type = c, !.s = @ + 1]
        ELSE st

\* DoFormat, the part run when a ':' follows the argument index
ParseSpec(cx, st) ==
    ParseType(cx, ParsePrecision(cx, ParseWidth(cx, ParseHash(cx, ParseSign(cx,
        ParseFillAlign(cx, [st EXCEPT !.s = @ + 1]))))))

(***************************************************************************)
(* Formatter::Arg.  One record shape serves every kind: value is the       *)
(* integer or the address, text the character, the characters of a string  *)
(* up to its terminator, the digit text of a floating-point value or what  *)
(* streaming a custom object writes; size is string.size, null tells a     *)
(* null string pointer, cls and neg describe a floating-point value.       *)
(***************************************************************************)
ArgOf(type) == [type |-> type, value |-> 0, text |-> <<>>, size |-> 0,
                null |-> FALSE, cls |-> "finite", neg |-> FALSE]

IntArg(v) == [ArgOf("INT") EXCEPT !.value = v]
UIntArg(v) == [ArgOf("UINT") EXCEPT !.value = v]
LongArg(v) == [ArgOf("LONG") EXCEPT !.value = v]
ULongArg(v) == [ArgOf("ULONG") EXCEPT !.value = v]
CharArg(c) == [ArgOf("CHAR") EXCEPT !.text = <<c>>]
\* Arg from a pointer to char: string.size is 0
CStringArg(t) == [ArgOf("STRING") EXCEPT !.text = t]
NullStringArg == [ArgOf("STRING") EXCEPT !.null = TRUE]
\* Arg(const std::string &)
StdStringArg(t) == [ArgOf("STRING") EXCEPT !.text = t, !.size = Len(t)]
PointerArg(v) == [ArgOf("POINTER") EXCEPT !.value = v]
DoubleArg(cls, neg, t) == [ArgOf("DOUBLE") EXCEPT !.cls = cls, !.neg = neg, !.text = t]
LongDoubleArg(cls, neg, t) ==
    [ArgOf("LONG_DOUBLE") EXCEPT !.cls = cls, !.neg = neg, !.text = t]
CustomArg(t) == [ArgOf("CUSTOM") EXCEPT !.text = t]

\* DoFormat, the CHAR case
FormatChar(buf, arg, spec) ==
    LET c == arg.text[1]
    IN  IF spec.width > 1
        THEN LET g == GrowBuffer(buf, spec.width)
                 out == buf.size
             IN  IF spec.align = ALIGN_RIGHT
                 THEN LET m1 == Fill(g.mem, out, out + (spec.width - 1), spec.fill)
                      IN  [g EXCEPT !.mem = Poke(m1, out + (spec.width - 1), c)]
                 ELSE IF spec.align = ALIGN_CENTER
                 THEN LET f == FillPadding(g.mem, out, spec.width, 1, spec.fill)
                      IN  [g EXCEPT !.mem = Poke(f.mem, f.content, c)]
                 ELSE LET m1 == Fill(g.mem, out + 1, out + spec.width, spec.fill)
                      IN  [g EXCEPT !.mem = Poke(m1, out, c)]
        ELSE LET g == GrowBuffer(buf, 1)
             IN  [g EXCEPT !.mem = Poke(g.mem, buf.size, c)]

\* DoFormat, "Format argument": the buffer after it and the error thrown
FormatArg(buf, arg, spec, precision, copy) ==
    IF arg.type \in {"INT", "UINT", "LONG", "ULONG"}
    THEN FormatInt(buf, arg.type, arg.value, spec)
    ELSE IF arg.type \in {"DOUBLE", "LONG_DOUBLE"}
    THEN FormatDouble(buf, arg, spec, precision, copy)
    ELSE IF arg.type = "CHAR"
    THEN (IF spec.type # NUL /\ spec.type # "c"
          THEN [buf |-> buf, err |-> ReportUnknownType(spec.type, "char")]
          ELSE [buf |-> FormatChar(buf, arg, spec), err |-> NoError])
    ELSE IF arg.type = "STRING"
    THEN (IF spec.type # NUL /\ spec.type # "s"
          THEN [buf |-> buf, err |-> ReportUnknownType(spec.type, "string")]
          ELSE IF arg.size = 0 /\ arg.null
          THEN [buf |-> buf, err |-> FormatError("string pointer is null")]
          ELSE LET size == IF arg.size = 0 THEN Len(arg.text) ELSE arg.size
               IN  [buf |-> FormatString(buf, arg.text, size, spec).buf,
                    err |-> NoError])
    ELSE IF arg.type = "POINTER"
    THEN (IF spec.type # NUL /\ spec.type # "p"
          THEN [buf |-> buf, err |-> ReportUnknownType(spec.type, "pointer")]
          ELSE FormatInt(buf, "ULONG", arg.value,
                         [spec EXCEPT !.flags = {HASH_FLAG}, !.type = "x"]))
    ELSE \* CUSTOM: FormatCustomArg streams the object and writes the text
         (IF spec.type # NUL
          THEN [buf |-> buf, err |-> ReportUnknownType(spec.type, "object")]
          ELSE [buf |-> FormatString(buf, arg.text, Len(arg.text), spec).buf,
                err |-> NoError])

\* buffer_.append(start, s) of DoFormat.  When Array::append writes beyond
\* the capacity, the bytes beyond it land in memory the array does not own.
AppendLiteral(cx, st, text) ==
    LET piece == [k |-> "lit", text |-> text,
                  from |-> st.buf.size, to |-> st.buf.size + Len(text)]
        st1 == [st EXCEPT !.pieces = IF text = <<>> THEN @ ELSE Append(@, piece)]
        Garbled(a) == [a EXCEPT !.mem = [i \in 1..Len(a.mem) |->
                                            IF i > a.capacity THEN UNINIT ELSE a.mem[i]]]
        Appended(a) ==
            IF a.size <= a.capacity THEN [st1 EXCEPT !.buf = a]
            ELSE IF cx.ub.heap = "crash"
            THEN [st1 EXCEPT !.buf = a, !.ubHeap = TRUE, !.err = Crashed]
            ELSE IF cx.ub.heap = "garbled"
            THEN [st1 EXCEPT !.buf = Garbled(a), !.ubHeap = TRUE]
            ELSE [st1 EXCEPT !.buf = a, !.ubHeap = TRUE]
    IN  Appended(ArrayAppend(st.buf, text))

\* the text [from, to) of the format string
Slice(fmt, from, to) == SubSeq(fmt, from + 1, to)

\* the offset of the first '{' or '}' at or after s, or of the terminator
NextBrace(fmt, s) ==
    LET braces == {i \in s..(Len(fmt) - 1) : fmt[i + 1] \in {"{", "}"}}
    IN  IF braces = {} THEN Len(fmt)
        ELSE CHOOSE i \in braces : \A j \in braces : i <= j

\* DoFormat, "const Arg &arg = ParseArgIndex(s)" with the reset FormatSpec
ArgOfField(cx, st) ==
    IF Thrown(st) THEN st
    ELSE ParseArgIndex(cx, [st EXCEPT !.spec = FormatSpec, !.precision = -1], FALSE)

\* DoFormat, the test for a colon after the argument index
SpecOfField(cx, st) ==
    IF Thrown(st) \/ CharAt(cx.fmt, st.s) # ":" THEN st ELSE ParseSpec(cx, st)

\* DoFormat, the test for the closing brace and "start = s"
CloseField(cx, st) ==
    IF Thrown(st) THEN st
    ELSE IF CharAt(cx.fmt, st.s) # "}"
    THEN [st EXCEPT !.s = @ + 1, !.err = UnmatchedOpen]
    ELSE [st EXCEPT !.s = @ + 1, !.start = st.s + 1]

\* FormatArg made a copy onto its own source
Overlapped(r) == "overlap" \in DOMAIN r /\ r.overlap

\* the state after the argument is formatted, r being what FormatArg gives
Rendered(st, r) ==
    LET piece == [k |-> "arg", text |-> <<>>,
                  from |-> st.buf.size, to |-> r.buf.size]
    IN  [st EXCEPT !.buf = r.buf, !.err = r.err,
                   !.ubCopy = @ \/ Overlapped(r),
                   !.rendered = Append(@, [arg |-> st.arg, spec |-> st.spec,
                                           precision |-> st.precision,
                                           from |-> st.buf.size,
                                           to |-> r.buf.size,
                                           err |-> r.err]),
                   !.pieces = IF r.err = NoError THEN Append(@, piece) ELSE @]

\* DoFormat, "Format argument"
RenderField(cx, st) ==
    IF Thrown(st) THEN st
    ELSE Rendered(st, FormatArg(st.buf, st.arg, st.spec, st.precision, cx.ub.copy))

\* DoFormat from "num_open_braces_ = 1" to the rendering of the argument:
\* st.s is just after the '{' that opens the field
FormatField(cx, st) ==
    RenderField(cx, CloseField(cx, SpecOfField(cx, ArgOfField(cx,
        AppendLiteral(cx, [st EXCEPT !.nob = 1],
                      Slice(cx.fmt, st.start, st.s - 1))))))

\* the main loop of DoFormat and the final append
RECURSIVE DoFormatLoop(_, _)
DoFormatLoop(cx, st) ==
    LET b == NextBrace(cx.fmt, st.s)
        c == CharAt(cx.fmt, b)
        s == b + 1
        Escaped(t) == [t EXCEPT !.s = s + 1, !.start = s + 1]
    IN  IF st.err # NoError THEN st
        ELSE IF c = NUL
        THEN AppendLiteral(cx, [st EXCEPT !.s = b], Slice(cx.fmt, st.start, b))
        ELSE IF CharAt(cx.fmt, s) = c
        THEN DoFormatLoop(cx, Escaped(AppendLiteral(cx, st, Slice(cx.fmt, st.start, s))))
        ELSE IF c = "}"
        THEN [st EXCEPT !.s = s, !.err = UnmatchedClose]
        ELSE DoFormatLoop(cx, FormatField(cx, [st EXCEPT !.s = s]))

\* a DoFormat that goes on from the index the call before left
ArgIndexAtStart_Kept(next_arg_index) == next_arg_index
\* DoFormat, "next_arg_index_ = 0"
ArgIndexAtStart(next_arg_index) == 0

\* Formatter::DoFormat on the format string cx.fmt
DoFormat(cx, buf, num_open_braces) ==
    DoFormatLoop(cx, [s |-> 0, start |-> 0, buf |-> buf,
                      next |-> ArgIndexAtStart(cx.next),
                      nob |-> num_open_braces, err |-> NoError,
                      arg |-> ArgOf("INT"), spec |-> FormatSpec, precision |-> -1,
                      reads |-> <<>>, runs |-> <<>>, modes |-> <<>>,
                      pieces |-> <<>>, rendered |-> <<>>,
                      report |-> NoReport,
                      ubArg |-> FALSE, ubHeap |-> FALSE, ubCopy |-> FALSE])

(***************************************************************************)
(* What the callers do.  A statement `out(format) << a1 << ... << an;`     *)
(* or `str(out(format) << a1 << ... << an)` on a Formatter `out` creates   *)
(* the ArgInserter, then for each argument its payload (a temporary the    *)
(* Arg refers to, if it has one) and its Arg, and destroys them in reverse *)
(* order at the end of the statement.  The format strings and arguments    *)
(* are drawn from the sets of the universe the behaviour runs in:          *)
(*   "parse"   format strings of up to MaxPieces pieces, each a piece of   *)
(*             literal text or a replacement field, and up to MaxArgs      *)
(*             arguments, of any kind in the first two positions;          *)
(*   "field"   format strings of one replacement field with a specifier,   *)
(*             and one argument of any kind;                               *)
(*   "double"  format strings of one replacement field with a specifier    *)
(*             for a floating-point value, and one argument;               *)
(*   "calls"   up to MaxCalls statements on the same Formatter;            *)
(*   "array"   no statement: up to MaxOps operations of the Array that     *)
(*             holds the output.                                           *)
(***************************************************************************)
MaxPieces == 2
MaxArgs == 3
MaxCalls == 2
MaxOps == 4

\* a digit run for each way ParseUInt can meet a large number
RECURSIVE Decimal(_)
Decimal(n) == IF n < 10 THEN <<DigitChar(n)>>
              ELSE Decimal(n \div 10) \o <<DigitChar(n % 10)>>

\* the least v whose v * 10 wraps around to a value not below v
WrapUnseen == (Pow2(IntBits) + 8) \div 9
BigRuns == { Decimal(UINT_MAX + 1),       \* wraps to 0
             Decimal(WrapUnseen * 10),    \* wraps to a value >= WrapUnseen
             Decimal(INT_MAX + 1),        \* fits unsigned, above INT_MAX
             Decimal(INT_MAX) }           \* the largest width

LiteralPieces == { <<"a">>, <<"{", "{">>, <<"}", "}">>, <<"}">> }
FieldPieces ==
    { <<"{", "}">>, <<"{", "0", "}">>, <<"{", "1", "}">>, <<"{", "3", "}">>,
      <<"{", ":", ".", "{", "}", "}">>, <<"{", ":", ".", "{", "0", "}", "}">>,
      <<"{", "0", ":", ".", "{", "}", "}">>, <<"{", "1", ":", ".", "{", "0", "}", "}">>,
      <<"{", ":">>, <<"{", "3">> }
Pieces == LiteralPieces \cup FieldPieces

RECURSIVE Concatenations(_)
Concatenations(n) ==
    IF n = 0 THEN {<<>>}
    ELSE LET shorter == Concatenations(n - 1)
         IN  shorter \cup {t \o p : t \in shorter, p \in Pieces}

\* literal text long enough for an append to meet a full buffer
LongTemplates ==
    { Rep("a", INLINE_BUFFER_SIZE - 10) \o <<"{", "{">>
         \o Rep("b", INLINE_BUFFER_SIZE \div 2 + 50) \o tail :
      tail \in {<<>>, <<"{", "}">>} }

\* errors inside a nested precision field and at a brace used as fill
NestedTemplates ==
    { <<"{", "0", ":", ".", "{", "1", "}">>, <<"{", ":", ".", "{", "x", "}", "}">>,
      <<"{", ":", ".", "{", "x", "}">>, <<"{", ":", "{", "<", "}">>,
      <<"{", ":", "{", "<", "}", "}">> }

ParseTemplates == Concatenations(MaxPieces) \cup LongTemplates \cup NestedTemplates
ParseArgs == { IntArg(7), DoubleArg("finite", FALSE, <<"1", ".", "5">>),
               StdStringArg(<<"s", "t">>) }

FillAligns == { <<>>, <<"<">>, <<">">>, <<"^">>, <<"=">>,
                <<"*", "<">>, <<"*", ">">>, <<"*", "^">>, <<"*", "=">> }
Signs == { <<>>, <<"+">>, <<"-">>, <<" ">> }
Hashes == { <<>>, <<"#">> }
Widths == { <<>>, <<"3">>, <<"0", "6">>, <<"8">> }
IntTypes == { <<>>, <<"d">>, <<"x">>, <<"X">>, <<"o">> }
IntSpecTemplates ==
    { <<"{", ":">> \o fa \o sg \o h \o w \o ty \o <<"}">> :
        fa \in FillAligns, sg \in Signs, h \in Hashes, w \in Widths, ty \in IntTypes }
RunTemplates ==
    { <<"{">> \o r \o <<"}">> : r \in BigRuns }
    \cup { <<"{", ":">> \o r \o <<"}">> : r \in BigRuns }
    \cup { <<"{", ":", ".">> \o r \o <<"}">> : r \in BigRuns }
    \cup { <<"{", ":", ".">> \o r : r \in BigRuns }
\* a field that closes right after the colon, followed by literal text
EdgeTemplates == { <<"{", ":", "}">> \o a : a \in {<<"=">>, <<"<">>, <<"a">>} }
FieldTemplates == IntSpecTemplates \cup RunTemplates \cup EdgeTemplates

IntValues == { 0, 1, 9, 10, 99, 100, 255, INT_MAX, -1, -10, -255, INT_MIN }
UIntValues == { 0, 255, INT_MAX + 1, UINT_MAX }
LongValues == { 9999, 10000, LONG_MAX, -10000, LONG_MIN }
ULongValues == { 0, 10000, LONG_MAX + 1, ULONG_MAX }
FieldArgs ==
    { IntArg(v) : v \in IntValues } \cup { UIntArg(v) : v \in UIntValues }
    \cup { LongArg(v) : v \in LongValues } \cup { ULongArg(v) : v \in ULongValues }
    \cup { DoubleArg("finite", FALSE, <<"1", ".", "5">>), StdStringArg(<<"s", "t">>),
           CStringArg(<<"s", "t", "r">>), CharArg("c"), PointerArg(255),
           CustomArg(<<"o", "b", "j">>) }

Precisions == { <<>>, <<".", "3">> }
DoubleTypes == { <<>>, <<"e">>, <<"F">>, <<"G">>, <<"d">> }
DoubleSpecTemplates ==
    { <<"{", ":">> \o fa \o sg \o w \o pr \o ty \o <<"}">> :
        fa \in FillAligns, sg \in Signs, w \in Widths, pr \in Precisions,
        ty \in DoubleTypes }
\* a field that meets a buffer with fewer bytes left than its width
FullBufferTemplates ==
    { Rep("a", INLINE_BUFFER_SIZE - 5) \o <<"{", ":">> \o fa \o <<"8", "}">> :
        fa \in {<<"^">>, <<"*", "^">>, <<">">>} }
DoubleTemplates == DoubleSpecTemplates \cup FullBufferTemplates
DoubleArgs ==
    { DoubleArg(cls, neg, <<>>) : cls \in {"nan", "inf"}, neg \in BOOLEAN }
    \cup { DoubleArg("finite", neg, <<"1", ".", "5">>) : neg \in BOOLEAN }
    \cup { DoubleArg("finite", FALSE, <<"2">>) }
    \cup { LongDoubleArg("inf", TRUE, <<>>),
           LongDoubleArg("finite", FALSE, <<"1", "2", ".", "2", "5">>),
           StdStringArg(<<"s", "t">>) }

CallTemplates ==
    { <<"{", "}">>, <<"{", "0", "}">>, <<"{", "0", "}", "{">>, <<"a">>,
      Rep("b", INLINE_BUFFER_SIZE - 100) }
CallArgs == { IntArg(7), StdStringArg(<<"s", "t">>) }

TemplatesOf(u) == IF u = "parse" THEN ParseTemplates
                  ELSE IF u = "field" THEN FieldTemplates
                  ELSE IF u = "double" THEN DoubleTemplates
                  ELSE CallTemplates
\* the arguments a caller may add after n others: in the "parse" universe
\* the kind varies in the first two positions
ArgsOf(u, n) == IF u = "field" THEN FieldArgs
                ELSE IF u = "double" THEN DoubleArgs
                ELSE IF u = "calls" THEN CallArgs
                ELSE IF n < 2 THEN ParseArgs ELSE {IntArg(7)}
MaxArgsOf(u) == IF u = "parse" THEN MaxArgs ELSE 1
\* the statements a caller makes on one Formatter
StatementsOf(u) == IF u = "calls" THEN MaxCalls ELSE IF u = "array" THEN 0 ELSE 1

\* the element counts the operations of the "array" universe are given
ArraySizes == { 1, INLINE_BUFFER_SIZE - 100, INLINE_BUFFER_SIZE + 100 }

\* Arg(const std::string &) and Arg(const T &) refer to an object of the caller.
HasPayload(arg) == arg.type = "CUSTOM" \/ (arg.type = "STRING" /\ arg.size > 0)

\* The outcomes of undefined behaviour.
GarbageArgs == { IntArg(0), DoubleArg("finite", FALSE, <<"0">>) }
NoUB == [arg |-> IntArg(0), argCrash |-> FALSE, heap |-> "intact",
         copy |-> "memmove"]
ArgUB == { [NoUB EXCEPT !.arg = g] : g \in GarbageArgs }
         \cup { [NoUB EXCEPT !.argCrash = TRUE] }
HeapUB == { [NoUB EXCEPT !.heap = h] : h \in {"intact", "garbled", "crash"} }
CopyUB == { [NoUB EXCEPT !.copy = c] : c \in {"memmove", "forward"} }

(***************************************************************************)
(* The state                                                               *)
(***************************************************************************)
VARIABLES
    universe,          \* where the callers draw format strings and arguments
    format_,           \* Formatter::format_: [null, text]
    args_,             \* Formatter::args_: an Array of pointers into temps
    buffer_,           \* BasicFormatter::buffer_
    next_arg_index_,   \* Formatter::next_arg_index_
    num_open_braces_,  \* Formatter::num_open_braces_
    temps,             \* the temporaries of the statement, in creation order
    phase,             \* "idle", "building", "destroying" or "crashed"
    stmts,             \* the statements begun on the Formatter
    res                \* what the DoFormat runs of the statement did

vars == <<universe, format_, args_, buffer_, next_arg_index_, num_open_braces_,
          temps, phase, stmts, res>>

NullFormat == [null |-> TRUE, text |-> <<>>]

NoRun == [ran |-> 0, by |-> "none", fmt |-> <<>>, nargs |-> 0, base |-> 0,
          before |-> <<>>, cursor |-> 0,
          alive |-> TRUE, err |-> NoError, reads |-> <<>>, runs |-> <<>>,
          modes |-> <<>>, pieces |-> <<>>, rendered |-> <<>>, out |-> <<>>,
          report |-> NoReport,
          ubArg |-> FALSE, ubHeap |-> FALSE, ubCopy |-> FALSE]

\* Formatter(): format_(0).  next_arg_index_ and num_open_braces_ are not
\* initialized; DoFormat assigns them before anything reads them.
InitFormatter ==
    /\ format_ = NullFormat
    /\ args_ = ArrayInit(NUM_INLINE_ARGS)
    /\ buffer_ = ArrayInit(INLINE_BUFFER_SIZE)
    /\ next_arg_index_ = 0
    /\ num_open_braces_ = 0
    /\ temps = <<>>
    /\ phase = "idle"
    /\ stmts = 0
    /\ res = NoRun

Init == universe = "parse" /\ InitFormatter
InitField == universe = "field" /\ InitFormatter
InitDouble == universe = "double" /\ InitFormatter
InitCalls == universe = "calls" /\ InitFormatter
InitArray == universe = "array" /\ InitFormatter

\* the temporaries not yet destroyed are a prefix of temps
LastAlive == IF \E k \in 1..Len(temps) : temps[k].alive
             THEN CHOOSE k \in 1..Len(temps) :
                     temps[k].alive /\ \A j \in (k + 1)..Len(temps) : ~temps[j].alive
             ELSE 0

Temp(kind, arg, payload) ==
    [kind |-> kind, arg |-> arg, alive |-> TRUE, payload |-> payload, formatter |-> FALSE]

\* an Arg can be read while it and the payload it refers to are alive
TempReadable(k) ==
    /\ temps[k].alive
    /\ (temps[k].payload = 0 \/ temps[temps[k].payload].alive)

CallContext(ub) ==
    [fmt |-> format_.text, args |-> args_, ub |-> ub, next |-> next_arg_index_,
     temps |-> [k \in 1..Len(temps) |->
                   [arg |-> temps[k].arg, alive |-> TempReadable(k)]]]

\* a DoFormat that leaves the format string in place
FormatAtStart_Kept(format) == format
\* DoFormat, "format_ = 0"
FormatAtStart(format) == NullFormat

\* the state after a DoFormat that ended in st
Finish(st, by) ==
    /\ format_' = FormatAtStart(format_)
    /\ buffer_' = st.buf
    /\ next_arg_index_' = st.next
    /\ num_open_braces_' = st.nob
    /\ res' = [ran |-> res.ran + 1, by |-> by, fmt |-> format_.text,
               nargs |-> args_.size, base |-> buffer_.size,
               before |-> Content(buffer_), cursor |-> next_arg_index_,
               alive |-> \A k \in 1..Len(temps) : temps[k].alive,
               err |-> st.err, reads |-> st.reads, runs |-> st.runs,
               modes |-> st.modes, pieces |-> st.pieces, rendered |-> st.rendered,
               out |-> Content(st.buf), report |-> st.report,
               ubArg |-> st.ubArg, ubHeap |-> st.ubHeap, ubCopy |-> st.ubCopy]

\* DoFormat(), with the undefined reads and writes taking the outcome ub
RunDoFormat(ub) == DoFormat(CallContext(ub), buffer_, num_open_braces_)

\* what the call can do: st0 when all it does is defined, otherwise one
\* outcome for each thing the undefined operations it met can do
Outcomes(st0) ==
    IF ~st0.ubArg /\ ~st0.ubHeap /\ ~st0.ubCopy THEN {st0}
    ELSE { RunDoFormat(ub) : ub \in (IF st0.ubArg THEN ArgUB ELSE {NoUB})
                                    \cup (IF st0.ubHeap THEN HeapUB ELSE {NoUB})
                                    \cup (IF st0.ubCopy THEN CopyUB ELSE {NoUB}) }

\* Formatter::CompleteFormatting, called by `by`
CompleteFormatting(by) ==
    IF format_.null
    THEN UNCHANGED <<format_, buffer_, next_arg_index_, num_open_braces_, res>>
    ELSE \E st \in Outcomes(RunDoFormat(NoUB)) : Finish(st, by)

\* the phase after a step that may have run DoFormat
PhaseAfter(normal) == IF res'.err = Crashed THEN "crashed" ELSE normal

\* Formatter::operator()(StringRef format)
Call ==
    /\ phase = "idle"
    /\ stmts < StatementsOf(universe)
    /\ \E t \in TemplatesOf(universe) : format_' = [null |-> FALSE, text |-> t]
    /\ args_' = ArrayClear(args_)
    /\ temps' = <<[Temp("inserter", ArgOf("INT"), 0) EXCEPT !.formatter = TRUE]>>
    /\ phase' = "building"
    /\ stmts' = stmts + 1
    /\ res' = NoRun
    /\ UNCHANGED <<universe, buffer_, next_arg_index_, num_open_braces_>>

\* ArgInserter::operator<<(const Formatter::Arg &arg) on a new temporary Arg
AddArg ==
    /\ phase = "building"
    /\ temps[1].formatter
    /\ args_.size < MaxArgsOf(universe)
    /\ \E a \in ArgsOf(universe, args_.size) :
          LET n == Len(temps)
              arg == [Temp("arg", a, IF HasPayload(a) THEN n + 1 ELSE 0)
                         EXCEPT !.formatter = TRUE]
          IN  IF HasPayload(a)
              THEN /\ temps' = temps \o <<Temp("payload", a, 0), arg>>
                   /\ args_' = ArrayPushBack(args_, n + 2)
              ELSE /\ temps' = Append(temps, arg)
                   /\ args_' = ArrayPushBack(args_, n + 1)
    /\ UNCHANGED <<universe, format_, buffer_, next_arg_index_, num_open_braces_,
                   phase, stmts, res>>

\* str(Proxy) or c_str(Proxy) on the inserter: operator Proxy() takes the
\* formatter away from the inserter and Proxy::Format completes the formatting
Str ==
    /\ phase = "building"
    /\ temps[1].formatter
    /\ CompleteFormatting("str")
    /\ temps' = [temps EXCEPT ![1].formatter = FALSE]
    /\ phase' = PhaseAfter("destroying")
    /\ UNCHANGED <<universe, args_, stmts>>

\* an ~Arg that does not complete the formatting
ArgDtor_Silent ==
    /\ phase \in {"building", "destroying"}
    /\ LastAlive > 0 /\ temps[LastAlive].kind = "arg"
    /\ temps' = [temps EXCEPT ![LastAlive].alive = FALSE]
    /\ phase' = "destroying"
    /\ UNCHANGED <<universe, format_, args_, buffer_, next_arg_index_,
                   num_open_braces_, stmts, res>>

\* Formatter::Arg::~Arg of the youngest temporary
ArgDtor ==
    /\ phase \in {"building", "destroying"}
    /\ LastAlive > 0 /\ temps[LastAlive].kind = "arg"
    /\ CompleteFormatting("arg")
    /\ temps' = [temps EXCEPT ![LastAlive].alive = FALSE]
    /\ phase' = PhaseAfter("destroying")
    /\ UNCHANGED <<universe, args_, stmts>>

\* the destructor of the object an Arg referred to
PayloadDtor ==
    /\ phase \in {"building", "destroying"}
    /\ LastAlive > 0 /\ temps[LastAlive].kind = "payload"
    /\ temps' = [temps EXCEPT ![LastAlive].alive = FALSE]
    /\ phase' = "destroying"
    /\ UNCHANGED <<universe, format_, args_, buffer_, next_arg_index_,
                   num_open_braces_, stmts, res>>

\* ArgInserter::~ArgInserter, the oldest temporary of the statement
ArgInserterDtor ==
    /\ phase \in {"building", "destroying"}
    /\ LastAlive = 1
    /\ IF temps[1].formatter THEN CompleteFormatting("inserter")
       ELSE UNCHANGED <<format_, buffer_, next_arg_index_, num_open_braces_, res>>
    /\ temps' = [temps EXCEPT ![1].alive = FALSE]
    /\ phase' = PhaseAfter("idle")
    /\ UNCHANGED <<universe, args_, stmts>>

\* BasicFormatter::Clear
Clear ==
    /\ phase = "idle"
    /\ buffer_' = ArrayClear(buffer_)
    /\ UNCHANGED <<universe, format_, args_, next_arg_index_, num_open_braces_,
                   temps, phase, stmts, res>>

Next == Call \/ AddArg \/ Str \/ ArgDtor \/ PayloadDtor \/ ArgInserterDtor \/ Clear

Spec == Init /\ [][Next]_vars
SpecField == InitField /\ [][Next]_vars
SpecDouble == InitDouble /\ [][Next]_vars
SpecCalls == InitCalls /\ [][Next]_vars

(***************************************************************************)
(* The operations of internal::Array on the Array that holds the output,   *)
(* counted in stmts.                                                       *)
(***************************************************************************)
\* what an operation of the Array leaves alone
formatterVars == <<universe, format_, args_, next_arg_index_, num_open_braces_,
                   temps, phase, res>>

\* Array::resize(new_size)
Resize ==
    /\ universe = "array" /\ stmts < MaxOps
    /\ \E new_size \in ArraySizes : buffer_' = ArrayResize(buffer_, new_size)
    /\ stmts' = stmts + 1
    /\ UNCHANGED formatterVars

\* Array::reserve(capacity)
Reserve ==
    /\ universe = "array" /\ stmts < MaxOps
    /\ \E capacity \in ArraySizes : buffer_' = ArrayReserve(buffer_, capacity)
    /\ stmts' = stmts + 1
    /\ UNCHANGED formatterVars

\* Array::push_back(value)
PushBack ==
    /\ universe = "array" /\ stmts < MaxOps
    /\ buffer_' = ArrayPushBack(buffer_, "x")
    /\ stmts' = stmts + 1
    /\ UNCHANGED formatterVars

\* Array::append(begin, end)
AppendRange ==
    /\ universe = "array" /\ stmts < MaxOps
    /\ \E n \in ArraySizes : buffer_' = ArrayAppend(buffer_, Rep("y", n))
    /\ stmts' = stmts + 1
    /\ UNCHANGED formatterVars

NextArray == Resize \/ Reserve \/ PushBack \/ AppendRange \/ Clear

SpecArray == InitArray /\ [][NextArray]_vars

(***************************************************************************)
(* Properties.  res describes the DoFormat run of the current statement:   *)
(* besides the history DoFormat kept, the format string and the number of  *)
(* arguments it ran on, who called it, the output before it (before, of    *)
(* length base) and after it (out), and the value next_arg_index_ had when *)
(* it began (cursor).  The definitions below read it.                      *)
(***************************************************************************)
Ran == res.ran > 0

\* the fields of the run used both automatic and manual indexing
Mixed == \E i, j \in 1..Len(res.modes) : res.modes[i].manual /\ ~res.modes[j].manual
AutoOnly == \A i \in 1..Len(res.modes) : ~res.modes[i].manual
LastMode == res.modes[Len(res.modes)]

\* the occurrences of c among the characters at offsets [from, to] of fmt
Count(fmt, c, from, to) == Cardinality({q \in from..to : CharAt(fmt, q) = c})

\* the text from offset pos on closes a field that has depth braces open
Closes(fmt, pos, depth) ==
    \E q \in pos..(Len(fmt) - 1) :
        Count(fmt, "}", pos, q) - Count(fmt, "{", pos, q) = depth

IsArgTemp(t) == t.kind = "arg"
\* the arguments the statement added, in order
ArgsAdded == SelectSeq(temps, IsArgTemp)

\* C1 as stated: a call whose fields use both automatic and manual indexing
\* fails with the error of the switch it makes, in either order.
C1_MixedFailsWithSwitchError ==
    (Ran /\ Mixed) =>
        res.err = IF LastMode.manual THEN SwitchToManual ELSE SwitchToAutomatic

\* C1: a call whose parse reaches a field of the other indexing mode stops at
\* that field and fails: with the error of the switch when the rest of the
\* format string closes the field, with "unmatched '{'" when it does not.
C1_MixedFails ==
    (Ran /\ Mixed) =>
        /\ \A i \in 1..(Len(res.modes) - 1) : res.modes[i].manual # LastMode.manual
        /\ res.err = IF ~Closes(res.fmt, LastMode.pos, LastMode.depth)
                     THEN UnmatchedOpen
                     ELSE IF LastMode.manual THEN SwitchToManual
                     ELSE SwitchToAutomatic

\* a manual field followed by a nested automatic precision field
C1_Witness ==
    /\ Ran /\ Mixed
    /\ LastMode.nested /\ ~LastMode.manual
    /\ res.err = SwitchToAutomatic

\* C2: when every field uses automatic indexing, the k-th field opened
\* (a nested precision field right after the field that contains it) reads
\* index k - 1, which is the k-th argument added when there is one.
C2_AutomaticIndexing ==
    (Ran /\ AutoOnly) =>
        /\ Len(res.reads) = Len(res.modes)
        /\ \A k \in 1..Len(res.reads) :
              /\ res.reads[k].pos = res.modes[k].pos
              /\ res.reads[k].nested = res.modes[k].nested
              /\ res.reads[k].index = k - 1
              /\ k <= res.nargs =>
                    /\ res.reads[k].defined
                    /\ res.reads[k].arg = ArgsAdded[k].arg

\* three automatic fields, the second one nested, over three arguments
C2_Witness ==
    /\ Ran /\ AutoOnly /\ res.err = NoError
    /\ res.nargs = 3 /\ Len(res.reads) = 3
    /\ res.reads[2].nested /\ ~res.reads[3].nested
    /\ res.reads[1].arg # res.reads[3].arg

IndexRuns == {k \in 1..Len(res.runs) : res.runs[k].what = "index"}
ManualReads == {j \in 1..Len(res.reads) : res.reads[j].manual}

\* C3 as stated: a manual index at or beyond the number of arguments fails
\* the call with the out-of-range error.
C3_OutOfRangeError ==
    Ran => \A k \in IndexRuns :
              res.runs[k].value >= res.nargs => res.err = IndexOutOfRange

\* C3: a manual index i at or beyond the number of arguments fails the call,
\* with the out-of-range error when the rest of the format string closes the
\* field and with "unmatched '{'" when it does not, and the argument list is
\* not read at i; an index below it resolves to the argument added (i+1)-th.
C3_ManualIndexing ==
    Ran =>
        /\ \A j \in ManualReads : res.reads[j].index < res.nargs
        /\ \A k \in IndexRuns :
              LET run == res.runs[k]
              IN  IF run.value >= res.nargs
                  THEN /\ res.err = IF Closes(res.fmt, run.pos, run.depth)
                                    THEN IndexOutOfRange ELSE UnmatchedOpen
                       /\ \A j \in ManualReads : res.reads[j].pos # run.pos
                  ELSE \E j \in ManualReads :
                          /\ res.reads[j].pos = run.pos
                          /\ res.reads[j].index = run.value
                          /\ res.reads[j].defined
                          /\ res.reads[j].arg = ArgsAdded[run.value + 1].arg

\* the index just past the last of a non-empty argument list
C3_Witness ==
    /\ Ran /\ res.nargs > 0
    /\ res.err = IndexOutOfRange
    /\ \E k \in IndexRuns : res.runs[k].value = res.nargs

\* C4: no Arg and no object an Arg refers to is destroyed before DoFormat has
\* run: DoFormat runs with every temporary of the statement alive, called by
\* the first ~Arg, by ~ArgInserter or by str(), and reads no destroyed Arg.
C4_FormatBeforeDestruction ==
    /\ (\E k \in 1..Len(temps) : ~temps[k].alive) => (Ran /\ format_.null)
    /\ Ran => /\ res.alive
              /\ res.by \in {"arg", "inserter", "str"}
              /\ \A j \in 1..Len(res.reads) :
                    res.reads[j].index < res.nargs => res.reads[j].defined

\* ~Arg ran DoFormat on a std::string that has since been destroyed
C4_Witness ==
    /\ Ran /\ res.by = "arg" /\ res.err = NoError
    /\ \E j \in 1..Len(res.reads) : HasPayload(res.reads[j].arg)
    /\ \E k \in 1..Len(temps) : temps[k].kind = "payload" /\ ~temps[k].alive

(***************************************************************************)
(* Properties of one rendered field, read in the "field" universe, where   *)
(* a format string is one replacement field and a call has one argument.   *)
(***************************************************************************)
\* the call succeeded and rendered its only field
Shown == Ran /\ res.err = NoError /\ Len(res.rendered) = 1
Field == res.rendered[1]
\* the characters the field put into the output
Text == SubSeq(res.out, Field.from + 1, Field.to)

IsInteger(arg) == arg.type \in {"INT", "UINT", "LONG", "ULONG"}
Magnitude(n) == IF n < 0 THEN 0 - n ELSE n
IsDecimalType(type) == type \in {NUL, "d"}
IsShiftType(type) == type \in {"x", "X", "o"}

\* positional notation, one digit at a time
RECURSIVE Positional(_, _, _)
Positional(n, base, digits) ==
    IF n < base THEN <<digits[n + 1]>>
    ELSE Positional(n \div base, base, digits) \o <<digits[(n % base) + 1]>>

DigitsOfType(type) ==
    IF type = "X" THEN <<"0", "1", "2", "3", "4", "5", "6", "7",
                         "8", "9", "A", "B", "C", "D", "E", "F">>
    ELSE IF type = "x" THEN <<"0", "1", "2", "3", "4", "5", "6", "7",
                              "8", "9", "a", "b", "c", "d", "e", "f">>
    ELSE IF type = "o" THEN <<"0", "1", "2", "3", "4", "5", "6", "7">>
    ELSE DecimalDigits
\* the digits of n >= 0 in the base and case of the type
DigitsText(n, type) == Positional(n, Len(DigitsOfType(type)), DigitsOfType(type))
PrefixText(type) == IF type = "o" THEN <<"0">> ELSE <<"0", type>>

\* the sign option of the only field of the format string
SignOption ==
    IF \E i \in 1..Len(res.fmt) : res.fmt[i] = "+" THEN <<"+">>
    ELSE IF \E i \in 1..Len(res.fmt) : res.fmt[i] = " " THEN <<" ">>
    ELSE <<>>
SignText(n) == IF n < 0 THEN <<"-">> ELSE SignOption

\* the value of the last run of digits of the type in text
IsDigitOf(c, type) == \E i \in 1..Len(DigitsOfType(type)) : DigitsOfType(type)[i] = c
ValueOfDigit(c, type) ==
    (CHOOSE i \in 1..Len(DigitsOfType(type)) : DigitsOfType(type)[i] = c) - 1
LastDigit(text, type) ==
    LET at == {i \in 1..Len(text) : IsDigitOf(text[i], type)}
    IN  IF at = {} THEN 0 ELSE CHOOSE i \in at : \A j \in at : j <= i
FirstDigit(text, type) ==
    LET e == LastDigit(text, type)
        starts == {b \in 1..e : \A i \in b..e : IsDigitOf(text[i], type)}
    IN  IF e = 0 THEN 1 ELSE CHOOSE b \in starts : \A j \in starts : b <= j
RECURSIVE ValueOfDigits(_, _, _, _)
ValueOfDigits(text, type, b, e) ==
    IF e < b THEN 0
    ELSE ValueOfDigits(text, type, b, e - 1) * Len(DigitsOfType(type))
         + ValueOfDigit(text[e], type)
DigitPortionValue(text, type) ==
    ValueOfDigits(text, type, FirstDigit(text, type), LastDigit(text, type))
Minuses(text) == Cardinality({i \in 1..Len(text) : text[i] = "-"})

\* C5: an integer rendered as decimal with no width and no sign flag is the
\* canonical decimal text of its value, a '-' before the digits of a negative
\* one, and CountDigits of the magnitude is the number of digits written.
C5_CanonicalDecimal ==
    (/\ Shown /\ IsInteger(Field.arg) /\ IsDecimalType(Field.spec.type)
     /\ Field.spec.width = 0 /\ SIGN_FLAG \notin Field.spec.flags) =>
        LET n == Field.arg.value
            digits == DigitsText(Magnitude(n), "d")
        IN  /\ Text = (IF n < 0 THEN <<"-">> ELSE <<>>) \o digits
            /\ CountDigits(Magnitude(n)) = Len(digits)
            /\ Len(digits) = 1 \/ digits[1] # "0"

\* the most negative long, whose digits CountDigits counts in two rounds
C5_Witness ==
    /\ Shown /\ Field.arg = LongArg(LONG_MIN)
    /\ IsDecimalType(Field.spec.type)
    /\ Field.spec.width = 0 /\ SIGN_FLAG \notin Field.spec.flags
    /\ Len(Text) > 5 /\ Text[1] = "-"

\* the offset after the brace that closes the field whose text starts at s
FieldEnd(fmt, s) ==
    LET ends == {q \in s..(Len(fmt) - 1) :
                    Count(fmt, "}", s, q) - Count(fmt, "{", s, q) = 1}
    IN  IF ends = {} THEN Len(fmt)
        ELSE (CHOOSE q \in ends : \A r \in ends : q <= r) + 1

\* the literal text of a format string from offset s on: the characters
\* outside replacement fields, a doubled brace standing for one brace
RECURSIVE LiteralText(_, _)
LiteralText(fmt, s) ==
    LET braces == {i \in s..(Len(fmt) - 1) : CharAt(fmt, i) \in {"{", "}"}}
        b == CHOOSE i \in braces : \A j \in braces : i <= j
    IN  IF braces = {} THEN SubSeq(fmt, s + 1, Len(fmt))
        ELSE IF CharAt(fmt, b + 1) = CharAt(fmt, b)
        THEN SubSeq(fmt, s + 1, b + 1) \o LiteralText(fmt, b + 2)
        ELSE IF CharAt(fmt, b) = "{"
        THEN SubSeq(fmt, s + 1, b) \o LiteralText(fmt, FieldEnd(fmt, b + 1))
        ELSE SubSeq(fmt, s + 1, b)

RECURSIVE LiteralsCopied(_, _)
LiteralsCopied(pieces, k) ==
    IF k = 0 THEN <<>>
    ELSE LiteralsCopied(pieces, k - 1)
         \o (IF pieces[k].k = "lit" THEN pieces[k].text ELSE <<>>)

\* the output of the call is its pieces one after the other, each literal
\* piece as it was copied, and the literal pieces are the literal text of
\* the format string
LiteralsInOrder ==
    LET n == Len(res.pieces)
    IN  /\ \A k \in 1..n :
              /\ res.pieces[k].from = (IF k = 1 THEN res.base ELSE res.pieces[k - 1].to)
              /\ res.pieces[k].k = "lit" =>
                    SubSeq(res.out, res.pieces[k].from + 1, res.pieces[k].to)
                        = res.pieces[k].text
        /\ Len(res.out) = (IF n = 0 THEN res.base ELSE res.pieces[n].to)
        /\ LiteralsCopied(res.pieces, n) = LiteralText(res.fmt, 0)

\* C6: in a successful call every "{{" gives one '{', every "}}" one '}',
\* and every other literal byte is copied to the output once, in order.
C6_LiteralText == (Ran /\ res.err = NoError) => LiteralsInOrder

\* what holds of the literal text: it is copied once and in order by every
\* successful call whose appends stay within the capacity of the buffer
LiteralTextWithinCapacity ==
    (Ran /\ res.err = NoError /\ ~res.ubHeap) => LiteralsInOrder

\* C7: no digit run of an index, a width or a precision whose value exceeds
\* UINT_MAX (for a width or a precision, INT_MAX) is accepted: the value the
\* call goes on with is the value the digits denote.
C7_NoWrappedNumber ==
    Ran => \A k \in 1..Len(res.runs) :
              LET run == res.runs[k]
              IN  /\ run.math <= UINT_MAX
                  /\ run.value = run.math
                  /\ run.what \in {"width", "precision"} => run.math <= INT_MAX

\* the digit runs within range are accepted with their value
NumbersInRange ==
    Ran => \A k \in 1..Len(res.runs) :
              res.runs[k].math <= UINT_MAX => res.runs[k].value = res.runs[k].math

\* C8 as stated: a negative signed integer rendered with x, X or o shows no
\* minus sign, and its digits are those of its two's-complement bit pattern.
C8_TwosComplement ==
    (/\ Shown /\ Field.arg.type \in {"INT", "LONG"} /\ Field.arg.value < 0
     /\ IsShiftType(Field.spec.type)) =>
        /\ Minuses(Text) = 0
        /\ DigitPortionValue(Text, Field.spec.type)
              = Field.arg.value + Pow2(BitsOf(Field.arg.type))

\* C8: a negative signed integer rendered with x, X or o shows one minus
\* sign, and its digits are those of its magnitude in the base of the type;
\* with no width the output is the sign, the prefix under '#', the digits.
C8_SignAndMagnitude ==
    (/\ Shown /\ Field.arg.type \in {"INT", "LONG"} /\ Field.arg.value < 0
     /\ IsShiftType(Field.spec.type)) =>
        LET type == Field.spec.type
            digits == DigitsText(0 - Field.arg.value, type)
            prefix == IF HASH_FLAG \in Field.spec.flags THEN PrefixText(type) ELSE <<>>
        IN  /\ Minuses(Text) = 1
            /\ DigitPortionValue(Text, type) = 0 - Field.arg.value
            /\ Field.spec.width = 0 => Text = <<"-">> \o prefix \o digits

\* -255 as {:x}
C8_Witness ==
    /\ Shown /\ Field.arg = IntArg(-255) /\ Field.spec.type = "x"
    /\ Text = <<"-", "f", "f">>

\* C9: an integer rendered with '#', the zero flag, a width above the length
\* of the unpadded text and x, X or o shows the sign, then the base prefix,
\* then the zero fill, then the digits.
C9_PrefixBeforeZeroFill ==
    (/\ Shown /\ IsInteger(Field.arg) /\ Field.arg.value >= 0
     /\ IsShiftType(Field.spec.type) /\ HASH_FLAG \in Field.spec.flags
     /\ Field.spec.align = ALIGN_NUMERIC /\ Field.spec.fill = "0") =>
        LET type == Field.spec.type
            digits == DigitsText(Field.arg.value, type)
            sign == SignText(Field.arg.value)
            unpadded == Len(sign) + Len(PrefixText(type)) + Len(digits)
        IN  Field.spec.width > unpadded =>
               Text = sign \o PrefixText(type)
                      \o Rep("0", Field.spec.width - unpadded) \o digits

\* C10: an integer rendered as decimal with numeric alignment in a width W
\* above the length L of the unpadded text shows the sign, if any, then
\* W - L fill characters, then the digits.
C10_NumericAlignment ==
    (/\ Shown /\ IsInteger(Field.arg) /\ IsDecimalType(Field.spec.type)
     /\ Field.spec.align = ALIGN_NUMERIC) =>
        LET digits == DigitsText(Magnitude(Field.arg.value), "d")
            sign == SignText(Field.arg.value)
            unpadded == Len(sign) + Len(digits)
        IN  Field.spec.width > unpadded =>
               Text = sign \o Rep(Field.spec.fill, Field.spec.width - unpadded)
                      \o digits

\* 255 as {:*=+8}
C10_Witness ==
    /\ Shown /\ Field.arg = IntArg(255) /\ IsDecimalType(Field.spec.type)
    /\ Field.spec.align = ALIGN_NUMERIC /\ Field.spec.fill = "*"
    /\ Text = <<"+", "*", "*", "*", "*", "2", "5", "5">>

(***************************************************************************)
(* Padding and alignment of one rendered field, for every kind of          *)
(* argument.                                                               *)
(***************************************************************************)
IsFloating(arg) == arg.type \in {"DOUBLE", "LONG_DOUBLE"}

\* the sign a number is shown with under the flags of spec
SignShown(negative, spec) ==
    IF negative THEN <<"-">>
    ELSE IF SIGN_FLAG \in spec.flags
    THEN (IF PLUS_FLAG \in spec.flags THEN <<"+">> ELSE <<" ">>)
    ELSE <<>>

\* the text of a floating-point value that is not finite
NonFiniteWord(arg, spec) ==
    IF arg.cls = "nan"
    THEN (IF spec.type \in {"E", "F", "G"} THEN <<"N", "A", "N">> ELSE <<"n", "a", "n">>)
    ELSE (IF spec.type \in {"E", "F", "G"} THEN <<"I", "N", "F">> ELSE <<"i", "n", "f">>)

\* the unpadded content of an argument under spec: what the field shows
\* when its width is 0
ContentOf(arg, spec) ==
    IF IsInteger(arg)
    THEN SignShown(arg.value < 0, spec)
         \o (IF HASH_FLAG \in spec.flags /\ IsShiftType(spec.type)
             THEN PrefixText(spec.type) ELSE <<>>)
         \o DigitsText(Magnitude(arg.value), spec.type)
    ELSE IF arg.type = "POINTER"
    THEN PrefixText("x") \o DigitsText(arg.value, "x")
    ELSE IF IsFloating(arg)
    THEN SignShown(arg.neg, spec)
         \o (IF arg.cls = "finite" THEN arg.text ELSE NonFiniteWord(arg, spec))
    ELSE arg.text

Fills(n) == Rep(Field.spec.fill, n)
\* W - L of the field
PadOf == Field.spec.width - Len(ContentOf(Field.arg, Field.spec))

\* C11 as stated: an integer, a string or a character whose content is
\* shorter than the width is followed by the fill under left alignment and
\* preceded by it under right alignment and under the default alignment.
C11_DefaultIsRight ==
    (/\ Shown /\ PadOf > 0
     /\ (IsInteger(Field.arg) \/ Field.arg.type \in {"STRING", "CHAR"})
     /\ Field.spec.align \in {ALIGN_LEFT, ALIGN_RIGHT, ALIGN_DEFAULT}) =>
        Text = IF Field.spec.align = ALIGN_LEFT
               THEN ContentOf(Field.arg, Field.spec) \o Fills(PadOf)
               ELSE Fills(PadOf) \o ContentOf(Field.arg, Field.spec)

\* the kinds FormatInt renders: the fill comes first by default
FillFirstByDefault(arg) == IsInteger(arg) \/ arg.type = "POINTER"

\* C11: an integer, pointer, string, character or custom object whose
\* content is shorter than the width is followed by the fill under left
\* alignment and preceded by it under right alignment; under the default
\* alignment the fill precedes an integer or a pointer and follows a
\* string, a character or a custom object.
C11_Alignment ==
    (/\ Shown /\ PadOf > 0 /\ ~IsFloating(Field.arg)
     /\ Field.spec.align \in {ALIGN_LEFT, ALIGN_RIGHT, ALIGN_DEFAULT}) =>
        Text = IF \/ Field.spec.align = ALIGN_RIGHT
                  \/ Field.spec.align = ALIGN_DEFAULT /\ FillFirstByDefault(Field.arg)
               THEN Fills(PadOf) \o ContentOf(Field.arg, Field.spec)
               ELSE ContentOf(Field.arg, Field.spec) \o Fills(PadOf)

\* "str" as {:8}
C11_Witness ==
    /\ Shown /\ Field.arg = CStringArg(<<"s", "t", "r">>)
    /\ Field.spec.align = ALIGN_DEFAULT /\ Field.spec.width = 8
    /\ Text = <<"s", "t", "r", " ", " ", " ", " ", " ">>

\* C12: a center-aligned field whose content has length L below the width W
\* shows floor((W - L) / 2) fill characters, then L characters, then
\* ceil((W - L) / 2) fill characters; the L characters are the content of an
\* argument that is not floating-point.
C12_Center ==
    (Shown /\ Field.spec.align = ALIGN_CENTER /\ PadOf > 0) =>
        LET left_pad == PadOf \div 2
            right_pad == PadOf - left_pad
            L == Len(ContentOf(Field.arg, Field.spec))
        IN  /\ Len(Text) = Field.spec.width
            /\ SubSeq(Text, 1, left_pad) = Fills(left_pad)
            /\ SubSeq(Text, left_pad + L + 1, Len(Text)) = Fills(right_pad)
            /\ left_pad <= right_pad /\ right_pad - left_pad <= 1
            /\ ~IsFloating(Field.arg) =>
                   SubSeq(Text, left_pad + 1, left_pad + L)
                       = ContentOf(Field.arg, Field.spec)

\* "st" as {:*^3}: the one fill character goes to the right
C12_Witness ==
    /\ Shown /\ Field.arg = StdStringArg(<<"s", "t">>)
    /\ Field.spec.align = ALIGN_CENTER /\ Field.spec.width = 3
    /\ Text = <<"s", "t", "*">>

\* C13: a field that renders successfully makes the output longer by
\* max(W, L), W being the width of the specifier and L the length of the
\* unpadded content, whatever the alignment and the kind of the argument;
\* content that is not shorter than the width is shown whole, with nothing
\* added, when the argument is not floating-point.
C13_Length ==
    Shown =>
        LET L == Len(ContentOf(Field.arg, Field.spec))
        IN  /\ Field.to - Field.from = Max(Field.spec.width, L)
            /\ Len(res.out) = res.base + Max(Field.spec.width, L)
                                + Len(LiteralText(res.fmt, 0))
            /\ (L >= Field.spec.width /\ ~IsFloating(Field.arg)) =>
                   Text = ContentOf(Field.arg, Field.spec)

\* the most negative long, seven characters, in a width of three
C13_Witness ==
    /\ Shown /\ Field.arg = LongArg(LONG_MIN) /\ Field.spec.width = 3
    /\ IsDecimalType(Field.spec.type)
    /\ Field.to - Field.from = Len(Decimal(0 - LONG_MIN)) + 1

\* C14: no argument that is not a number is handed to its renderer with a
\* specifier whose alignment is numeric.
C14_NoNumericAlignment ==
    Ran => \A k \in 1..Len(res.rendered) :
              NotNumeric(res.rendered[k].arg.type) =>
                  res.rendered[k].spec.align
                      \in {ALIGN_DEFAULT, ALIGN_LEFT, ALIGN_RIGHT, ALIGN_CENTER}

\* what holds of numeric alignment: an argument that is not a number is
\* rendered with it only in a width of 0, where no alignment shows
NumericAlignmentShowsNowhere ==
    Ran => \A k \in 1..Len(res.rendered) :
              (/\ NotNumeric(res.rendered[k].arg.type)
               /\ res.rendered[k].spec.align = ALIGN_NUMERIC) =>
                  res.rendered[k].spec.width = 0

(***************************************************************************)
(* Floating-point fields, read in the "double" universe.                   *)
(***************************************************************************)
\* text is content with fill characters before it, after it or both,
\* pad of them in all
IsPadded(text, content, pad) ==
    \E k \in 0..pad : text = Fills(k) \o content \o Fills(pad - k)

\* C15: a NaN or an infinity is shown as nan or inf, in upper case under E,
\* F and G, after a '-' when its sign bit is set and after the '+' or the
\* space the sign flag asks for when it is not, whatever the precision and
\* the type; the field holds that and the fill up to the width, no more.
C15_NanAndInf ==
    (Shown /\ IsFloating(Field.arg) /\ Field.arg.cls \in {"nan", "inf"}) =>
        LET content == SignShown(Field.arg.neg, Field.spec)
                       \o NonFiniteWord(Field.arg, Field.spec)
        IN  IsPadded(Text, content, Max(Field.spec.width - Len(content), 0))

\* minus infinity as {:*>8.3F}
C15_Witness ==
    /\ Shown /\ Field.arg = DoubleArg("inf", TRUE, <<>>)
    /\ Field.precision = 3 /\ Field.spec.type = "F"
    /\ Text = <<"*", "*", "*", "*", "-", "I", "N", "F">>

\* C20: a finite floating-point value whose unpadded text c, sign included,
\* has length n below the width W is shown under center alignment as
\* floor((W - n) / 2) fill characters, then c, then ceil((W - n) / 2) fill
\* characters.
C20_CenteredDouble ==
    (/\ Shown /\ IsFloating(Field.arg) /\ Field.arg.cls = "finite"
     /\ Field.spec.align = ALIGN_CENTER /\ PadOf > 0) =>
        Text = Fills(PadOf \div 2) \o ContentOf(Field.arg, Field.spec)
               \o Fills(PadOf - PadOf \div 2)

\* what holds of a centered finite value: it is shown as C20 has it when the
\* text is moved by at least its length and the output fits the storage the
\* buffer starts with
CenteredDoubleMovedClear ==
    (/\ Shown /\ IsFloating(Field.arg) /\ Field.arg.cls = "finite"
     /\ Field.spec.align = ALIGN_CENTER /\ PadOf > 0
     /\ ~res.ubCopy /\ Len(res.out) <= INLINE_BUFFER_SIZE) =>
        Text = Fills(PadOf \div 2) \o ContentOf(Field.arg, Field.spec)
               \o Fills(PadOf - PadOf \div 2)

\* a finite value in a width above the length of its content, with a fill
\* character that is not the space
FiniteWithFill ==
    /\ Shown /\ IsFloating(Field.arg) /\ Field.arg.cls = "finite"
    /\ PadOf > 0 /\ Field.spec.fill # " "

\* the padding positions of the field under the alignments that are not
\* center: after the content (left), before it (right, default), between
\* the sign and the digits (numeric)
PaddedAs(align, pad) ==
    IF align = ALIGN_LEFT THEN ContentOf(Field.arg, Field.spec) \o pad
    ELSE IF align = ALIGN_NUMERIC
    THEN SignShown(Field.arg.neg, Field.spec) \o pad \o Field.arg.text
    ELSE pad \o ContentOf(Field.arg, Field.spec)

\* C21: a finite floating-point value in a width W above its content length
\* L, with a fill character other than the space, shows the fill character
\* in each of its W - L padding positions under left, right, default and
\* numeric alignment; under left alignment it is the content followed by
\* W - L fill characters.
C21_FillInPadding ==
    (FiniteWithFill /\ Field.spec.align # ALIGN_CENTER) =>
        Text = PaddedAs(Field.spec.align, Fills(PadOf))

\* what holds of the padding of a finite value: the fill character stands
\* in every padding position under right, default and numeric alignment,
\* and under left alignment the content is followed by W - L spaces
LeftPadsWithSpaces ==
    (FiniteWithFill /\ Field.spec.align # ALIGN_CENTER) =>
        Text = PaddedAs(Field.spec.align,
                        IF Field.spec.align = ALIGN_LEFT
                        THEN Rep(" ", PadOf) ELSE Fills(PadOf))

(***************************************************************************)
(* Several statements on one Formatter, read in the "calls" universe.      *)
(***************************************************************************)
\* C16: a call after another call on the same Formatter resolves its fields
\* as a first call does, whatever index the call before left behind: its
\* first field is not refused for a switch of indexing mode, and when all
\* its fields are automatic the k-th reads index k - 1.
C16_CursorReset ==
    (Ran /\ stmts > 1 /\ Len(res.modes) > 0) =>
        /\ Len(res.modes) = 1 => res.err \notin {SwitchToManual, SwitchToAutomatic}
        /\ ~res.modes[1].manual =>
               /\ Len(res.reads) >= 1
               /\ res.reads[1].index = 0 /\ ~res.reads[1].manual
        /\ AutoOnly => \A k \in 1..Len(res.reads) : res.reads[k].index = k - 1

\* an automatic field in a call that follows a call with a manual field
C16_Witness ==
    /\ Ran /\ stmts > 1 /\ res.cursor < 0
    /\ res.err = NoError /\ Len(res.reads) = 1
    /\ ~res.reads[1].manual /\ res.reads[1].index = 0

\* the output of the run follows the output that was there before it
KeepsEarlierOutput ==
    /\ Len(res.out) >= Len(res.before)
    /\ SubSeq(res.out, 1, Len(res.before)) = res.before

\* every argument the run read is one that was added for it
ReadsOwnArguments ==
    \A j \in 1..Len(res.reads) :
        res.reads[j].index < res.nargs /\ res.reads[j].defined

\* C17: a successful call leaves the earlier output in place as a prefix,
\* never shortens the buffer, adds its own output after it (its literal text
\* and its rendered arguments, in order), and reads only arguments added
\* for it.
C17_Appends ==
    (Ran /\ res.err = NoError) =>
        KeepsEarlierOutput /\ LiteralsInOrder /\ ReadsOwnArguments

\* what holds of the calls that stay clear of undefined behaviour: they
\* append, and read their own arguments
AppendsWhenDefined ==
    (Ran /\ res.err = NoError /\ ~res.ubHeap /\ ~res.ubArg) =>
        KeepsEarlierOutput /\ LiteralsInOrder /\ ReadsOwnArguments

(***************************************************************************)
(* The argument list and the Array, read in the "parse" and the "array"    *)
(* universes.                                                              *)
(***************************************************************************)
AutomaticFields == {i \in 1..Len(res.modes) : ~res.modes[i].manual}

\* C18: every read of the argument list uses an index below the number of
\* arguments added for the call, and a call with more automatic fields
\* (nested ones counted) than arguments fails.
C18_ReadsWithinArgs ==
    Ran => /\ \A j \in 1..Len(res.reads) : res.reads[j].index < res.nargs
           /\ Cardinality(AutomaticFields) > res.nargs => res.err # NoError

\* what holds of the reads: those of manual fields stay within the
\* arguments, and the one past the end is that of an automatic field
OnlyAutomaticReadsPastEnd ==
    Ran => \A j \in 1..Len(res.reads) :
              res.reads[j].index >= res.nargs =>
                  /\ ~res.reads[j].manual
                  /\ ~res.reads[j].defined
                  /\ res.ubArg

\* the elements are within the storage allocated for them
WithinCapacity(a) == a.size <= a.capacity /\ Len(a.mem) <= a.capacity

\* C19: after any sequence of resize, reserve, push_back, append and clear
\* the size of the Array is at most its capacity and no element was written
\* at an index beyond the capacity.
C19_WithinCapacity == WithinCapacity(buffer_)

\* what holds of the Array: resize, reserve, push_back and clear keep the
\* elements within the capacity
OthersKeepWithinCapacity ==
    [][((Resize \/ Reserve \/ PushBack \/ Clear) /\ WithinCapacity(buffer_))
          => WithinCapacity(buffer_')]_vars

(***************************************************************************)
(* The callers of CompleteFormatting within one statement.                 *)
(***************************************************************************)
\* a step of the statement taken with the format string cleared: an ~Arg,
\* the ~ArgInserter, str() or the destructor of a referred object
AfterTheRun == format_.null /\ phase \in {"building", "destroying"}

\* C22: DoFormat runs at most once for the format string of a statement,
\* whoever calls CompleteFormatting and however often: the run leaves
\* format_ null whether it ends normally or with a FormatError, and every
\* step of the statement after it leaves format_ null and the buffer and
\* the record of the run as they are.
C22_RunsOnce ==
    [][/\ res'.ran <= 1
       /\ res'.ran > res.ran => format_'.null
       /\ AfterTheRun => /\ format_'.null
                         /\ buffer_' = buffer_
                         /\ res' = res]_vars

\* a statement with two arguments has ended: the ~Arg of the second ran
\* DoFormat, which threw; the ~Arg of the first and ~ArgInserter found
\* format_ null
C22_Witness ==
    /\ phase = "idle" /\ stmts = 1 /\ res.ran = 1
    /\ res.by = "arg" /\ res.nargs = 2
    /\ res.err \notin {NoError, Crashed}
    /\ format_.null
    /\ \A k \in 1..Len(temps) : ~temps[k].alive
    /\ Content(buffer_) = res.out

(***************************************************************************)
(* The error a call of ReportError ends the run with.                      *)
(***************************************************************************)
\* the run ended in a call of ReportError
ReportedError == Ran /\ res.report # NoReport

\* offset pos lies in the nested field of a precision: after a '{' that
\* follows a '.', with no brace in between
InNestedField(fmt, pos) ==
    \E q \in 1..(pos - 1) :
        /\ CharAt(fmt, q) = "{" /\ CharAt(fmt, q - 1) = "."
        /\ \A k \in (q + 1)..(pos - 1) : CharAt(fmt, k) \notin {"{", "}"}

\* C23: a call of ReportError inside a replacement field counts 1 open brace,
\* or 2 in the nested field of a precision, and ends the run with the message
\* it was given only when the format string from the position it was given
\* on holds the '}' at which that count, raised by every '{' on the way,
\* comes down to zero; otherwise the run ends with "unmatched '{' in
\* format".
C23_UnclosedOverrides ==
    ReportedError =>
        /\ res.report.depth = IF InNestedField(res.fmt, res.report.pos) THEN 2 ELSE 1
        /\ res.report.message \notin {NoError, UnmatchedOpen, Crashed}
        /\ res.err = IF Closes(res.fmt, res.report.pos, res.report.depth)
                     THEN res.report.message
                     ELSE UnmatchedOpen
        /\ Count(res.fmt, "}", res.report.pos, Len(res.fmt)) = 0 =>
               res.err = UnmatchedOpen

\* "{0:.{1}" with a precision argument that is not an integer: the '}' that
\* follows closes the nested field only
C23_Witness ==
    /\ ReportedError
    /\ res.report.message = FormatError("precision is not integer")
    /\ res.report.depth = 2
    /\ CharAt(res.fmt, res.report.pos) = "}"
    /\ res.err = UnmatchedOpen

====
